---- MODULE Spec2Model ----
(***************************************************************************)
(* A model of the rc8 CHIP-8 interpreter (src/src/emulator.rs).            *)
(*                                                                         *)
(* Bytes are integers 0..255.  A 64-bit framebuffer row (u64) is the set   *)
(* of its set bit positions, bit i having the value 2^i, so shifts, XOR    *)
(* and AND are computed on the bits themselves.  Option<u8> is None (-1)   *)
(* or the byte.  A Rust panic (index out of bounds) is the result kind     *)
(* "Panic", after which no further call is made.                           *)
(***************************************************************************)
EXTENDS Integers, Sequences, FiniteSets

\* ------------------------------------------------------------------------
\* Program constants
\* ------------------------------------------------------------------------
DISPLAY_WIDTH == 64
DISPLAY_HEIGHT == 32
MEM_SIZE == 4096
SPRITE_DATA_START == 0
ADDR_START == 512
ADDR_END == 3727
\* mutant: the end address is taken as exclusive
MAX_ROM_SIZE_excl == ADDR_END - ADDR_START
MAX_ROM_SIZE == ADDR_END - ADDR_START + 1
LIMIT == 64 - 8

SPRITE_DATA ==
  << 240, 144, 144, 144, 240,   32,  96,  32,  32, 112,
     240,  16, 240, 128, 240,  240,  16, 240,  16, 240,
     144, 144, 240,  16,  16,  240, 128, 240,  16, 240,
     240, 128, 240, 144, 240,  240,  16,  32,  64,  64,
     240, 144, 240, 144, 240,  240, 144, 240,  16, 240,
     240, 144, 240, 144, 144,  224, 144, 224, 144, 224,
     240, 128, 128, 128, 240,  224, 144, 144, 144, 224,
     240, 128, 240, 128, 240,  240, 128, 240, 128, 128 >>

\* ------------------------------------------------------------------------
\* Bounds and input sets
\* ------------------------------------------------------------------------
\* vblank() calls counted by the history counter n_vblank
MaxVblank == 3

\* lengths of the programs given to load_rom(): tests::test_load_small_rom,
\* tests::test_load_big_rom_limit and the lengths around the limits
LoadLens == {2, 10, 2192, 2193, 3216, 3217, 6432}

\* iterations of the run loop
MaxIter == 4

\* microseconds between two iterations of the run loop: none, one CPU
\* cycle, one frame
Elapsed == {0, 2000, 17000}

\* the events one iteration of the run loop finds: SDL key and window events
Batches ==
  {<< >>, <<"Num1Down">>, <<"Num1Up">>, <<"SpaceDown">>, <<"EscapeDown">>,
   <<"Quit">>, <<"SpaceUp">>, <<"SpaceDown", "SpaceDown">>,
   <<"EscapeDown", "SpaceDown">>, <<"Quit", "SpaceDown">>}

\* register contents the skip programs compare
SkipValues == {0, 1, 255}

\* values of Vx and Vy and numbers of rows the drawing programs use
DrawXs == {0, 55, 56, 57, 63, 69, 250}
DrawYs == {0, 29, 31, 62}
DrawNs == {0, 1, 5, 15}

\* register contents and register pairs (x, y) the arithmetic programs use
AluValues == {0, 1, 128, 255}
AluRegs == {<<0, 1>>, <<1, 1>>, <<15, 1>>, <<1, 15>>, <<15, 15>>}
\* last nibbles of the 8XYN instructions
AluOps == {1, 2, 3, 4, 5, 6, 7, 14}

\* depth of the call stack up to which 2NNN is followed
MaxStack == 13

\* arguments the input collaborator passes to set_key (18 is out of 0..15)
KeyArgs == {1, 18}

\* bytes the random generator may deliver to Cxnn
RandBytes == {0, 56, 255}

\* ------------------------------------------------------------------------
\* Bit arithmetic on bytes and on 64-bit rows
\* ------------------------------------------------------------------------
ByteBits(v) == {i \in 0..7 : (v \div (2^i)) % 2 = 1}

BitsByte(S) ==
  LET bit(i) == IF i \in S THEN 2^i ELSE 0
  IN bit(0) + bit(1) + bit(2) + bit(3) + bit(4) + bit(5) + bit(6) + bit(7)

BitAnd(v, w) == BitsByte(ByteBits(v) \cap ByteBits(w))
BitOr(v, w) == BitsByte(ByteBits(v) \cup ByteBits(w))
BitXor(v, w) ==
  BitsByte((ByteBits(v) \cup ByteBits(w)) \ (ByteBits(v) \cap ByteBits(w)))

\* u64 << k and u64 >> k: bits shifted past either end are lost
Shl64(S, k) == {i + k : i \in {j \in S : j + k <= 63}}
\* mutant: bits shifted out on the right come back on the left
Shr64_rot(S, k) == {(i - k + 64) % 64 : i \in S}
Shr64(S, k) == {i - k : i \in {j \in S : j >= k}}
\* mutant: the sprite is OR-ed onto the row
Xor64_or(S, T) == S \cup T
Xor64(S, T) == (S \cup T) \ (S \cap T)
And64(S, T) == S \cap T

nibble_h(b) == (b \div 16) % 16
nibble_l(b) == b % 16
nnn(a, b) == ((a * 256) + b) % 4096

\* Option<u8>
None == -1
Some(k) == k % 256

\* ------------------------------------------------------------------------
\* Result<(), EmulatorError> of execute()
\* ------------------------------------------------------------------------
NoResult == [kind |-> "None", a |-> 0, b |-> 0, addr |-> 0]
Ok == [kind |-> "Ok", a |-> 0, b |-> 0, addr |-> 0]
Panic == [kind |-> "Panic", a |-> 0, b |-> 0, addr |-> 0]
InvalidReturn(addr) ==
  [kind |-> "InvalidReturn", a |-> 0, b |-> 0, addr |-> addr % 65536]
MachineSubroutine(addr) ==
  [kind |-> "MachineSubroutine", a |-> 0, b |-> 0, addr |-> addr % 65536]
InvalidJump(a, b, addr) ==
  [kind |-> "InvalidJump", a |-> a, b |-> b, addr |-> addr % 65536]
InvalidOpcode(a, b, addr) ==
  [kind |-> "InvalidOpcode", a |-> a, b |-> b, addr |-> addr % 65536]

\* an arm of the match that falls through to the end of execute()
Fall(m) == [emu |-> m, res |-> Ok, ret |-> FALSE]
\* an arm that returns early
Return(m, r) == [emu |-> m, res |-> r, ret |-> TRUE]

\* ------------------------------------------------------------------------
\* The arms of the match in execute().  m is the machine after the
\* pre-increment of PC; a and b are the two fetched bytes.
\* ------------------------------------------------------------------------
SetV(m, x, v) == [m EXCEPT !.V[x] = v]

op_00E0(m, a, b) ==
  Fall([m EXCEPT !.screen = [r \in 0..(DISPLAY_HEIGHT - 1) |-> {}]])

op_00EE_pc(m, a, b) ==
  IF m.sub_stack = << >>
  THEN Return(m, InvalidReturn(m.PC))
  ELSE Fall([m EXCEPT !.PC = m.sub_stack[Len(m.sub_stack)],
                      !.sub_stack = SubSeq(m.sub_stack, 1, Len(m.sub_stack) - 1)])

op_00EE(m, a, b) ==
  IF m.sub_stack = << >>
  THEN Return(m, InvalidReturn(m.PC - 2))
  ELSE Fall([m EXCEPT !.PC = m.sub_stack[Len(m.sub_stack)],
                      !.sub_stack = SubSeq(m.sub_stack, 1, Len(m.sub_stack) - 1)])

op_0NNN(m, a, b) == Return(m, MachineSubroutine(m.PC))

op_1NNN(m, a, b) == Fall([m EXCEPT !.PC = nnn(a, b)])

\* mutant: the address of the call itself is pushed
op_2NNN_fetch(m, a, b) ==
  Fall([m EXCEPT !.sub_stack = Append(m.sub_stack, m.PC - 2), !.PC = nnn(a, b)])

op_2NNN(m, a, b) ==
  Fall([m EXCEPT !.sub_stack = Append(m.sub_stack, m.PC), !.PC = nnn(a, b)])

\* mutant: the skip advances by one byte
op_3XNN_skip1(m, a, b) ==
  IF m.V[nibble_l(a)] = b THEN Fall([m EXCEPT !.PC = m.PC + 1]) ELSE Fall(m)

op_3XNN(m, a, b) ==
  IF m.V[nibble_l(a)] = b THEN Fall([m EXCEPT !.PC = m.PC + 2]) ELSE Fall(m)

\* mutant: the test of 3XNN
op_4XNN_eq(m, a, b) ==
  IF m.V[nibble_l(a)] = b THEN Fall([m EXCEPT !.PC = m.PC + 2]) ELSE Fall(m)

op_4XNN(m, a, b) ==
  IF m.V[nibble_l(a)] # b THEN Fall([m EXCEPT !.PC = m.PC + 2]) ELSE Fall(m)

op_5XY0(m, a, b) ==
  IF m.V[nibble_l(a)] = m.V[nibble_h(b)]
  THEN Fall([m EXCEPT !.PC = m.PC + 2]) ELSE Fall(m)

op_6XNN(m, a, b) == Fall(SetV(m, nibble_l(a), b))

\* mutant: the carry of the addition is written to VF
op_7XNN_carry(m, a, b) ==
  LET sum == m.V[nibble_l(a)] + b
  IN Fall(SetV(SetV(m, nibble_l(a), sum % 256), 15,
               IF sum > 255 THEN 1 ELSE 0))

op_7XNN(m, a, b) ==
  Fall(SetV(m, nibble_l(a), (m.V[nibble_l(a)] + b) % 256))

op_8XY0(m, a, b) == Fall(SetV(m, nibble_l(a), m.V[nibble_h(b)]))

\* mutant: VF is left as it is
op_8XY1_keep_vf(m, a, b) ==
  LET x == nibble_l(a)
      y == nibble_h(b)
  IN Fall(SetV(m, x, BitOr(m.V[x], m.V[y])))

op_8XY1(m, a, b) ==
  LET x == nibble_l(a)
      y == nibble_h(b)
  IN Fall(SetV(SetV(m, x, BitOr(m.V[x], m.V[y])), 15, 0))

op_8XY2(m, a, b) ==
  LET x == nibble_l(a)
      y == nibble_h(b)
  IN Fall(SetV(SetV(m, x, BitAnd(m.V[x], m.V[y])), 15, 0))

op_8XY3(m, a, b) ==
  LET x == nibble_l(a)
      y == nibble_h(b)
  IN Fall(SetV(SetV(m, x, BitXor(m.V[x], m.V[y])), 15, 0))

\* mutant: the carry is set from 255 on
op_8XY4_ge(m, a, b) ==
  LET x == nibble_l(a)
      y == nibble_h(b)
      sum == m.V[x] + m.V[y]
      carry == IF sum >= 255 THEN 1 ELSE 0
  IN Fall(SetV(SetV(m, x, sum % 256), 15, carry))

op_8XY4(m, a, b) ==
  LET x == nibble_l(a)
      y == nibble_h(b)
      sum == m.V[x] + m.V[y]
      carry == IF sum > 255 THEN 1 ELSE 0
  IN Fall(SetV(SetV(m, x, sum % 256), 15, carry))

\* mutant: the flag is written before the difference
op_8XY5_flag_first(m, a, b) ==
  LET x == nibble_l(a)
      y == nibble_h(b)
      carry == m.V[x] < m.V[y]
      result == (m.V[x] - m.V[y] + 256) % 256
  IN Fall(SetV(SetV(m, 15, IF carry THEN 0 ELSE 1), x, result))

op_8XY5(m, a, b) ==
  LET x == nibble_l(a)
      y == nibble_h(b)
      carry == m.V[x] < m.V[y]
      result == (m.V[x] - m.V[y] + 256) % 256
  IN Fall(SetV(SetV(m, x, result), 15, IF carry THEN 0 ELSE 1))

\* mutant: Vx is shifted in place
op_8XY6_vx(m, a, b) ==
  LET x == nibble_l(a)
      y == nibble_h(b)
      flag == m.V[x] % 2
  IN Fall(SetV(SetV(m, x, m.V[x] \div 2), 15, flag))

op_8XY6(m, a, b) ==
  LET x == nibble_l(a)
      y == nibble_h(b)
      flag == m.V[y] % 2
  IN Fall(SetV(SetV(m, x, m.V[y] \div 2), 15, flag))

\* mutant: the operands are swapped
op_8XY7_xy(m, a, b) ==
  LET x == nibble_l(a)
      y == nibble_h(b)
      carry == m.V[x] < m.V[y]
      result == (m.V[x] - m.V[y] + 256) % 256
  IN Fall(SetV(SetV(m, x, result), 15, IF carry THEN 0 ELSE 1))

op_8XY7(m, a, b) ==
  LET x == nibble_l(a)
      y == nibble_h(b)
      carry == m.V[y] < m.V[x]
      result == (m.V[y] - m.V[x] + 256) % 256
  IN Fall(SetV(SetV(m, x, result), 15, IF carry THEN 0 ELSE 1))

op_8XYE(m, a, b) ==
  LET x == nibble_l(a)
      y == nibble_h(b)
      flag == m.V[y] \div 128
  IN Fall(SetV(SetV(m, x, (m.V[y] * 2) % 256), 15, flag))

op_9XY0(m, a, b) ==
  IF m.V[nibble_l(a)] # m.V[nibble_h(b)]
  THEN Fall([m EXCEPT !.PC = m.PC + 2]) ELSE Fall(m)

op_ANNN(m, a, b) == Fall([m EXCEPT !.I = nnn(a, b)])

\* mutant: the limit test is > instead of >=
op_BNNN_gt(m, a, b) ==
  LET addr == m.V[0] + nnn(a, b)
  IN IF addr > MEM_SIZE
     THEN Return([m EXCEPT !.PC = m.PC - 2], InvalidJump(a, b, m.PC - 2))
     ELSE Fall([m EXCEPT !.PC = addr])

op_BNNN(m, a, b) ==
  LET addr == m.V[0] + nnn(a, b)
  IN IF addr >= MEM_SIZE
     THEN Return([m EXCEPT !.PC = m.PC - 2], InvalidJump(a, b, m.PC - 2))
     ELSE Fall([m EXCEPT !.PC = addr])

op_CXNN(m, a, b, rnd) == Fall(SetV(m, nibble_l(a), BitAnd(rnd, b)))

\* the body of the draw loop of DXYN, from row `offset` on; x and y are the
\* start position already reduced modulo the display size
RECURSIVE DrawLoop(_, _, _, _, _)
DrawLoop(m, x, y, n, offset) ==
  IF offset >= n THEN Fall(m)
  ELSE
    LET row == y + offset
    IN IF row >= DISPLAY_HEIGHT THEN Fall(m)
       ELSE
         LET location == m.I + offset
         IN IF location >= MEM_SIZE THEN Return(m, Panic)
            ELSE
              LET byte == ByteBits(m.memory[location])
                  to_draw == IF x > LIMIT THEN Shr64(byte, x - LIMIT)
                             ELSE IF x < LIMIT THEN Shl64(byte, LIMIT - x)
                             ELSE byte
                  result == Xor64(m.screen[row], to_draw)
                  m1 == IF m.screen[row] # And64(m.screen[row], result)
                        THEN SetV(m, 15, 1)
                        ELSE m
              IN DrawLoop([m1 EXCEPT !.screen[row] = result], x, y, n, offset + 1)

\* mutant: a draw of no row leaves the vblank latch set
op_DXYN_zero_free(m, a, b) ==
  IF ~m.vblank_interrupt
  THEN Return([m EXCEPT !.PC = m.PC - 2], Ok)
  ELSE
    LET x == m.V[nibble_l(a)] % 64
        y == m.V[nibble_h(b)] % 32
        n == nibble_l(b)
    IN IF n = 0 THEN Fall(m)
       ELSE DrawLoop([m EXCEPT !.vblank_interrupt = FALSE], x, y, n, 0)

\* mutant: the vblank gate falls through to the end of execute()
op_DXYN_fall(m, a, b) ==
  IF ~m.vblank_interrupt
  THEN Fall([m EXCEPT !.PC = m.PC - 2])
  ELSE
    LET x == m.V[nibble_l(a)] % 64
        y == m.V[nibble_h(b)] % 32
        n == nibble_l(b)
    IN DrawLoop([m EXCEPT !.vblank_interrupt = FALSE], x, y, n, 0)

\* mutant: the vblank gate returns without rolling PC back
op_DXYN_no_rollback(m, a, b) ==
  IF ~m.vblank_interrupt
  THEN Return(m, Ok)
  ELSE
    LET x == m.V[nibble_l(a)] % 64
        y == m.V[nibble_h(b)] % 32
        n == nibble_l(b)
    IN DrawLoop([m EXCEPT !.vblank_interrupt = FALSE], x, y, n, 0)

\* mutant: a draw leaves the vblank latch set
op_DXYN_keep_latch(m, a, b) ==
  IF ~m.vblank_interrupt
  THEN Return([m EXCEPT !.PC = m.PC - 2], Ok)
  ELSE
    LET x == m.V[nibble_l(a)] % 64
        y == m.V[nibble_h(b)] % 32
        n == nibble_l(b)
    IN DrawLoop(m, x, y, n, 0)

op_DXYN(m, a, b) ==
  IF ~m.vblank_interrupt
  THEN Return([m EXCEPT !.PC = m.PC - 2], Ok)
  ELSE
    LET x == m.V[nibble_l(a)] % 64
        y == m.V[nibble_h(b)] % 32
        n == nibble_l(b)
    IN DrawLoop([m EXCEPT !.vblank_interrupt = FALSE], x, y, n, 0)

op_EX9E(m, a, b) ==
  LET key == m.V[nibble_l(a)] % 16
  IN IF m.keys[key] THEN Fall([m EXCEPT !.PC = m.PC + 2]) ELSE Fall(m)

op_EXA1(m, a, b) ==
  LET key == m.V[nibble_l(a)] % 16
  IN IF ~m.keys[key] THEN Fall([m EXCEPT !.PC = m.PC + 2]) ELSE Fall(m)

op_FX07(m, a, b) == Fall(SetV(m, nibble_l(a), m.DT))

op_FX0A(m, a, b) ==
  IF m.last_pressed_key # None
  THEN Fall(SetV(m, nibble_l(a), m.last_pressed_key))
  ELSE Fall([m EXCEPT !.PC = m.PC - 2])

op_FX15(m, a, b) == Fall([m EXCEPT !.DT = m.V[nibble_l(a)]])

\* mutant: the delay timer is set along with the sound timer
op_FX18_both(m, a, b) ==
  Fall([m EXCEPT !.ST = m.V[nibble_l(a)], !.DT = m.V[nibble_l(a)]])

op_FX18(m, a, b) == Fall([m EXCEPT !.ST = m.V[nibble_l(a)]])

op_FX1E(m, a, b) == Fall([m EXCEPT !.I = (m.I + m.V[nibble_l(a)]) % 65536])

op_FX29(m, a, b) == Fall([m EXCEPT !.I = (m.V[nibble_l(a)] % 16) * 5])

\* the three stores are made in order; an out-of-range index panics after
\* the stores before it
\* mutant: the tens digit is not reduced mod 10
op_FX33_tens(m, a, b) ==
  LET v == m.V[nibble_l(a)]
      i == m.I
      m1 == [m EXCEPT !.memory[i] = v \div 100]
      m2 == [m1 EXCEPT !.memory[i + 1] = v \div 10]
      m3 == [m2 EXCEPT !.memory[i + 2] = (v % 100) % 10]
  IN IF i >= MEM_SIZE THEN Return(m, Panic)
     ELSE IF i + 1 >= MEM_SIZE THEN Return(m1, Panic)
     ELSE IF i + 2 >= MEM_SIZE THEN Return(m2, Panic)
     ELSE Fall(m3)

op_FX33(m, a, b) ==
  LET v == m.V[nibble_l(a)]
      i == m.I
      m1 == [m EXCEPT !.memory[i] = v \div 100]
      m2 == [m1 EXCEPT !.memory[i + 1] = (v \div 10) % 10]
      m3 == [m2 EXCEPT !.memory[i + 2] = (v % 100) % 10]
  IN IF i >= MEM_SIZE THEN Return(m, Panic)
     ELSE IF i + 1 >= MEM_SIZE THEN Return(m1, Panic)
     ELSE IF i + 2 >= MEM_SIZE THEN Return(m2, Panic)
     ELSE Fall(m3)

\* memory mem with V[0], ..., V[n - 1] copied to start, ..., start + n - 1
RECURSIVE CopyRegs(_, _, _, _)
CopyRegs(mem, regs, start, n) ==
  IF n = 0 THEN mem
  ELSE [CopyRegs(mem, regs, start, n - 1) EXCEPT ![start + n - 1] = regs[n - 1]]

\* mutant: the registers are stored from address 0, not from I
op_FX55_from0(m, a, b) ==
  LET start_addr == m.I
      end == nibble_l(a) + 1
  IN IF start_addr + end > MEM_SIZE THEN Return(m, Panic)
     ELSE Fall([m EXCEPT !.memory = CopyRegs(m.memory, m.V, 0, end),
                         !.I = m.I + end])

op_FX55(m, a, b) ==
  LET start_addr == m.I
      end == nibble_l(a) + 1
  IN IF start_addr + end > MEM_SIZE THEN Return(m, Panic)
     ELSE Fall([m EXCEPT !.memory = CopyRegs(m.memory, m.V, start_addr, end),
                         !.I = m.I + end])

\* mutant: Vx itself is not loaded
op_FX65_excl(m, a, b) ==
  LET start_addr == m.I
      end == nibble_l(a) + 1
  IN IF start_addr + end > MEM_SIZE THEN Return(m, Panic)
     ELSE Fall([m EXCEPT
            !.V = [k \in 0..15 |->
                     IF k < end - 1 THEN m.memory[start_addr + k] ELSE m.V[k]],
            !.I = m.I + end])

op_FX65(m, a, b) ==
  LET start_addr == m.I
      end == nibble_l(a) + 1
  IN IF start_addr + end > MEM_SIZE THEN Return(m, Panic)
     ELSE Fall([m EXCEPT
            !.V = [k \in 0..15 |->
                     IF k < end THEN m.memory[start_addr + k] ELSE m.V[k]],
            !.I = m.I + end])

\* mutant: the error carries the address after the pre-increment
op_invalid_pc(m, a, b) == Return(m, InvalidOpcode(a, b, m.PC))

\* the default arm
op_invalid(m, a, b) == Return(m, InvalidOpcode(a, b, m.PC - 2))

\* ------------------------------------------------------------------------
\* execute(): fetch, pre-increment, dispatch, clear the key latch
\* ------------------------------------------------------------------------
Dispatch(m, a, b, rnd) ==
  LET h == nibble_h(a)
      l == nibble_l(b)
  IN CASE h = 0 /\ a = 0 /\ b = 224 -> op_00E0(m, a, b)
       [] h = 0 /\ a = 0 /\ b = 238 -> op_00EE(m, a, b)
       [] h = 0 /\ ~(a = 0 /\ b \in {224, 238}) -> op_0NNN(m, a, b)
       [] h = 1 -> op_1NNN(m, a, b)
       [] h = 2 -> op_2NNN(m, a, b)
       [] h = 3 -> op_3XNN(m, a, b)
       [] h = 4 -> op_4XNN(m, a, b)
       [] h = 5 /\ l = 0 -> op_5XY0(m, a, b)
       [] h = 6 -> op_6XNN(m, a, b)
       [] h = 7 -> op_7XNN(m, a, b)
       [] h = 8 /\ l = 0 -> op_8XY0(m, a, b)
       [] h = 8 /\ l = 1 -> op_8XY1(m, a, b)
       [] h = 8 /\ l = 2 -> op_8XY2(m, a, b)
       [] h = 8 /\ l = 3 -> op_8XY3(m, a, b)
       [] h = 8 /\ l = 4 -> op_8XY4(m, a, b)
       [] h = 8 /\ l = 5 -> op_8XY5(m, a, b)
       [] h = 8 /\ l = 6 -> op_8XY6(m, a, b)
       [] h = 8 /\ l = 7 -> op_8XY7(m, a, b)
       [] h = 8 /\ l = 14 -> op_8XYE(m, a, b)
       [] h = 9 /\ l = 0 -> op_9XY0(m, a, b)
       [] h = 10 -> op_ANNN(m, a, b)
       [] h = 11 -> op_BNNN(m, a, b)
       [] h = 12 -> op_CXNN(m, a, b, rnd)
       [] h = 13 -> op_DXYN(m, a, b)
       [] h = 14 /\ b = 158 -> op_EX9E(m, a, b)
       [] h = 14 /\ b = 161 -> op_EXA1(m, a, b)
       [] h = 15 /\ b = 7 -> op_FX07(m, a, b)
       [] h = 15 /\ b = 10 -> op_FX0A(m, a, b)
       [] h = 15 /\ b = 21 -> op_FX15(m, a, b)
       [] h = 15 /\ b = 24 -> op_FX18(m, a, b)
       [] h = 15 /\ b = 30 -> op_FX1E(m, a, b)
       [] h = 15 /\ b = 41 -> op_FX29(m, a, b)
       [] h = 15 /\ b = 51 -> op_FX33(m, a, b)
       [] h = 15 /\ b = 85 -> op_FX55(m, a, b)
       [] h = 15 /\ b = 101 -> op_FX65(m, a, b)
       [] OTHER -> op_invalid(m, a, b)

\* mutant: the last released key is kept
Epilogue_keep_latch(o) == [emu |-> o.emu, res |-> o.res]

\* the statements after the match
Epilogue(o) ==
  IF o.ret THEN [emu |-> o.emu, res |-> o.res]
  ELSE [emu |-> [o.emu EXCEPT !.last_pressed_key = None], res |-> Ok]

execute(m, rnd) ==
  IF m.PC + 1 >= MEM_SIZE
  THEN [emu |-> m, res |-> Panic]
  ELSE LET a == m.memory[m.PC]
           b == m.memory[m.PC + 1]
       IN Epilogue(Dispatch([m EXCEPT !.PC = m.PC + 2], a, b, rnd))

\* ------------------------------------------------------------------------
\* The other public operations, as functions of the machine
\* ------------------------------------------------------------------------
\* mutant: every release is recorded, of a key that is up too
set_key_any_release(m, key, pressed) ==
  LET m1 == IF ~pressed
            THEN [m EXCEPT !.last_pressed_key = Some(key)]
            ELSE m
  IN [m1 EXCEPT !.keys[key % 16] = pressed]

\* mutant: the key is recorded when it goes down
set_key_on_press(m, key, pressed) ==
  LET m1 == IF ~m.keys[key % 16] /\ pressed
            THEN [m EXCEPT !.last_pressed_key = Some(key)]
            ELSE m
  IN [m1 EXCEPT !.keys[key % 16] = pressed]

set_key(m, key, pressed) ==
  LET m1 == IF m.keys[key % 16] /\ ~pressed
            THEN [m EXCEPT !.last_pressed_key = Some(key)]
            ELSE m
  IN [m1 EXCEPT !.keys[key % 16] = pressed]

\* mutant: the signal is lost
vblank_lost(m) == [m EXCEPT !.vblank_interrupt = FALSE]

\* mutant: the latch is toggled
vblank_toggle(m) == [m EXCEPT !.vblank_interrupt = ~m.vblank_interrupt]

vblank(m) == [m EXCEPT !.vblank_interrupt = TRUE]

\* mutant: wrapping subtraction
decrease_timers_wrap(m) ==
  [m EXCEPT !.DT = (m.DT + 255) % 256,
            !.ST = (m.ST + 255) % 256]

decrease_timers(m) ==
  [m EXCEPT !.DT = IF m.DT >= 1 THEN m.DT - 1 ELSE m.DT,
            !.ST = IF m.ST >= 1 THEN m.ST - 1 ELSE m.ST]

\* mutant: the snapshot is not taken
screen_changed_keep(m) ==
  [emu |-> m, changed |-> m.screen # m.prev_screen]

\* the machine after the call and the value returned
screen_changed(m) ==
  [emu |-> [m EXCEPT !.prev_screen = m.screen],
   changed |-> m.screen # m.prev_screen]

\* mutant: the mask counts columns from the right
get_pixel_mirror(m, x, y) ==
  LET xx == x % DISPLAY_WIDTH
      yy == y % DISPLAY_HEIGHT
  IN xx \in m.screen[yy]

get_pixel(m, x, y) ==
  LET xx == x % DISPLAY_WIDTH
      yy == y % DISPLAY_HEIGHT
  IN (DISPLAY_WIDTH - xx - 1) \in m.screen[yy]

load_rom(rom) ==
  LET n == IF Len(rom) < MAX_ROM_SIZE THEN Len(rom) ELSE MAX_ROM_SIZE
  IN [PC |-> ADDR_START,
      memory |-> [k \in 0..(MEM_SIZE - 1) |->
                    IF k >= SPRITE_DATA_START /\ k < SPRITE_DATA_START + Len(SPRITE_DATA)
                    THEN SPRITE_DATA[k - SPRITE_DATA_START + 1]
                    ELSE IF k >= ADDR_START /\ k < ADDR_START + n
                    THEN rom[k - ADDR_START + 1]
                    ELSE 0],
      V |-> [k \in 0..15 |-> 0],
      I |-> 0,
      sub_stack |-> << >>,
      DT |-> 0,
      ST |-> 0,
      keys |-> [k \in 0..15 |-> FALSE],
      screen |-> [r \in 0..(DISPLAY_HEIGHT - 1) |-> {}],
      prev_screen |-> [r \in 0..(DISPLAY_HEIGHT - 1) |-> {}],
      vblank_interrupt |-> FALSE,
      last_pressed_key |-> None]

\* ------------------------------------------------------------------------
\* Programs loaded at construction
\* ------------------------------------------------------------------------
\* draws a 3-row sprite twice at a random position, then a 0-row sprite
ROM_DRAW ==
  << 111, 1,     \* 0x200: 6F01  VF := 1
     192, 127,   \* 0x202: C07F  V0 := rnd & 0x7F
     129, 0,     \* 0x204: 8100  V1 := V0
     162, 16,    \* 0x206: A210  I := 0x210
     208, 19,    \* 0x208: D013  draw
     208, 19,    \* 0x20A: D013  draw again
     208, 16,    \* 0x20C: D010  draw no row
     18, 14,     \* 0x20E: 120E  jump to self
     255, 1, 129 \* 0x210: sprite FF 01 81
  >>

\* draws glyph "0" clipped at the bottom right, then a sprite over it twice
ROM_OVERDRAW ==
  << 96, 58,     \* 0x200: 603A  V0 := 58
     97, 29,     \* 0x202: 611D  V1 := 29
     208, 21,    \* 0x204: D015  draw glyph "0" (I = 0)
     162, 14,    \* 0x206: A20E  I := 0x20E
     208, 19,    \* 0x208: D013  draw sprite over the glyph
     208, 19,    \* 0x20A: D013  draw it again
     18, 12,     \* 0x20C: 120C  jump to self
     66, 255, 36 \* 0x20E: sprite 42 FF 24
  >>

\* waits for a key, runs one instruction, waits for a key again
ROM_KEY ==
  << 240, 10,    \* 0x200: F00A  V0 := key (wait)
     97, 1,      \* 0x202: 6101  V1 := 1
     242, 10,    \* 0x204: F20A  V2 := key (wait)
     18, 6       \* 0x206: 1206  jump to self
  >>

\* tests::test_jump_addr_v0
ROM_JUMP ==
  << 96, 2,      \* 0x200: 6002  V0 := 2
     178, 4,     \* 0x202: B204  jump to 0x204 + V0
     0, 0,       \* 0x204: filler
     97, 1,      \* 0x206: 6101  V1 := 1
     96, 255,    \* 0x208: 60FF  V0 := 0xFF
     191, 255    \* 0x20A: BFFF  jump outside of memory
  >>

\* the two sides of the limit of BNNN: 0xFFF + 0 and 0xFFF + 1
ROM_JUMP_EDGE ==
  << 192, 1,     \* 0x200: C001  V0 := rnd & 1
     191, 255    \* 0x202: BFFF  jump to 0xFFF + V0
  >>

\* patterns that match no instruction, then machine-code calls
ROM_BAD ==
  << 81, 35,     \* 0x200: 5123
     129, 40,    \* 0x202: 8128
     129, 47,    \* 0x204: 812F
     145, 33,    \* 0x206: 9121
     225, 0,     \* 0x208: E100
     241, 0,     \* 0x20A: F100
     1, 35,      \* 0x20C: 0123
     0, 225,     \* 0x20E: 00E1
     18, 16      \* 0x210: 1210  jump to self
  >>

ROMS == {ROM_DRAW, ROM_OVERDRAW, ROM_KEY, ROM_JUMP, ROM_JUMP_EDGE, ROM_BAD}

\* a call nested in a call, then a return with nothing to return to
ROM_SUB ==
  << 34, 6,      \* 0x200: 2206  call 0x206
     0, 238,     \* 0x202: 00EE  return (the stack is empty)
     18, 4,      \* 0x204: 1204  jump to self
     34, 10,     \* 0x206: 220A  call 0x20A
     0, 238,     \* 0x208: 00EE  return
     96, 1,      \* 0x20A: 6001  V0 := 1
     0, 238      \* 0x20C: 00EE  return
  >>

\* tests::test_bad_return, followed by a jump back
ROM_BAD_RETURN ==
  << 0, 238,     \* 0x200: 00EE  return (the stack is empty)
     18, 0       \* 0x202: 1200  jump to 0x200
  >>

\* a subroutine that calls itself
ROM_RECURSE ==
  << 34, 0 >>    \* 0x200: 2200  call 0x200

ROMS_CALL == {ROM_SUB, ROM_BAD_RETURN, ROM_RECURSE}

\* BCD and register stores above the program, then BCD over the glyph table
ROM_BCD ==
  << 96, 254,    \* 0x200: 60FE  V0 := 254
     163, 0,     \* 0x202: A300  I := 0x300
     240, 51,    \* 0x204: F033  BCD of V0 at 0x300
     241, 85,    \* 0x206: F155  store V0, V1 at 0x300
     160, 0,     \* 0x208: A000  I := 0
     240, 51,    \* 0x20A: F033  BCD of V0 at 0x000
     18, 12      \* 0x20C: 120C  jump to self
  >>

\* a register store that starts in the glyph table and ends after it
ROM_STORE ==
  << 96, 7,      \* 0x200: 6007  V0 := 7
     160, 78,    \* 0x202: A04E  I := 0x04E
     242, 85,    \* 0x204: F255  store V0..V2 at 0x04E
     240, 85,    \* 0x206: F055  store V0 at 0x051
     18, 8       \* 0x208: 1208  jump to self
  >>

\* the glyph of a digit is addressed, read and drawn
ROM_GLYPH ==
  << 96, 10,     \* 0x200: 600A  V0 := 0xA
     240, 41,    \* 0x202: F029  I := glyph of V0
     243, 101,   \* 0x204: F365  load V0..V3 from the glyph
     209, 37,    \* 0x206: D125  draw 5 rows at (V1, V2)
     18, 8       \* 0x208: 1208  jump to self
  >>

\* tests::test_bulk_save and tests::test_bulk_load in one program: registers
\* stored, cleared and loaded back from the same address
ROM_ROUNDTRIP ==
  << 96, 17,     \* 0x200: 6011  V0 := 0x11
     97, 34,     \* 0x202: 6122  V1 := 0x22
     98, 51,     \* 0x204: 6233  V2 := 0x33
     163, 0,     \* 0x206: A300  I := 0x300
     241, 85,    \* 0x208: F155  store V0, V1 at 0x300
     96, 0,      \* 0x20A: 6000  V0 := 0
     97, 0,      \* 0x20C: 6100  V1 := 0
     163, 0,     \* 0x20E: A300  I := 0x300
     241, 101,   \* 0x210: F165  load V0, V1 from 0x300
     18, 18      \* 0x212: 1212  jump to self
  >>

ROMS_MEM == {ROM_BCD, ROM_STORE, ROM_GLYPH, ROM_ROUNDTRIP}

\* the sound timer, then the delay timer are set, and the delay timer is read
ROM_TIMER ==
  << 96, 4,      \* 0x200: 6004  V0 := 4
     240, 24,    \* 0x202: F018  ST := V0
     96, 9,      \* 0x204: 6009  V0 := 9
     240, 21,    \* 0x206: F015  DT := V0
     241, 7,     \* 0x208: F107  V1 := DT
     18, 8       \* 0x20A: 1208  jump to 0x208
  >>

ROMS_TIMER == {ROM_TIMER}

ROMS_SCREEN == {ROM_OVERDRAW}

\* the timers are set; a draw, a wait for a key, a draw of no row, a draw
ROM_GATE ==
  << 111, 1,     \* 0x200: 6F01  VF := 1
     96, 2,      \* 0x202: 6002  V0 := 2
     240, 21,    \* 0x204: F015  DT := V0
     240, 24,    \* 0x206: F018  ST := V0
     208, 1,     \* 0x208: D001  draw 1 row at (2, 2)
     241, 10,    \* 0x20A: F10A  V1 := key (wait)
     208, 0,     \* 0x20C: D000  draw no row
     208, 1,     \* 0x20E: D001  draw 1 row at (2, 2)
     18, 16      \* 0x210: 1210  jump to self
  >>

ROMS_GATE == {ROM_GATE}

\* the first row of glyph "0" is drawn and erased, then no row is drawn
ROM_BLINK ==
  << 208, 1,     \* 0x200: D001  draw 1 row at (0, 0)
     208, 1,     \* 0x202: D001  draw it again
     208, 0,     \* 0x204: D000  draw no row
     18, 6       \* 0x206: 1206  jump to self
  >>

\* n rows of glyph "0" are drawn at (vx, 0) and erased, then no row is drawn
BlinkRom(vx, n) ==
  << 96, vx,     \* 0x200: 60xx  V0 := vx
     208, 16 + n,\* 0x202: D01n  draw n rows at (vx, 0)
     208, 16 + n,\* 0x204: D01n  draw them again
     208, 16,    \* 0x206: D010  draw no row
     18, 8       \* 0x208: 1208  jump to self
  >>

\* I is set to the last but one byte of memory, then three bytes are stored
ROM_I_BCD ==
  << 96, 123,    \* 0x200: 607B  V0 := 123
     175, 254,   \* 0x202: AFFE  I := 0xFFE
     240, 51     \* 0x204: F033  store the digits of V0 at 0xFFE..0x1000
  >>

\* I is raised past the end of memory by FX1E, then registers are stored
ROM_I_STORE ==
  << 96, 1,      \* 0x200: 6001  V0 := 1
     175, 255,   \* 0x202: AFFF  I := 0xFFF
     240, 30,    \* 0x204: F01E  I := I + V0 = 0x1000
     241, 85     \* 0x206: F155  store V0..V1 at 0x1000
  >>

\* I is set to the last byte of memory, then two registers are loaded
ROM_I_LOAD ==
  << 175, 255,   \* 0x200: AFFF  I := 0xFFF
     241, 101    \* 0x202: F165  load V0..V1 from 0xFFF..0x1000
  >>

\* I is set to the last byte of memory, then two rows are drawn
ROM_I_DRAW ==
  << 175, 255,   \* 0x200: AFFF  I := 0xFFF
     208, 2      \* 0x202: D002  draw 2 rows from 0xFFF..0x1000
  >>

ROMS_EDGE == {ROM_I_BCD, ROM_I_STORE, ROM_I_LOAD, ROM_I_DRAW}

\* the sound timer is set, then the program loops
ROM_SOUND ==
  << 96, 3,      \* 0x200: 6003  V0 := 3
     240, 24,    \* 0x202: F018  ST := V0
     18, 4       \* 0x204: 1204  jump to self
  >>

\* the sound timer is set, then the program runs into no instruction
ROM_SOUND_BAD ==
  << 96, 3,      \* 0x200: 6003  V0 := 3
     240, 24,    \* 0x202: F018  ST := V0
     255, 255    \* 0x204: FFFF  no instruction
  >>

ROMS_APP == {ROM_SOUND, ROM_SOUND_BAD}

\* V0 := va, V1 := vb, then the skip instruction hi lo
SkipRom(va, vb, hi, lo) ==
  << 96, va,     \* 0x200: 60aa  V0 := va
     97, vb,     \* 0x202: 61bb  V1 := vb
     hi, lo,     \* 0x204: the skip instruction
     18, 6,      \* 0x206: 1206  jump to self (not skipped)
     18, 8       \* 0x208: 1208  jump to self (skipped)
  >>

\* 30nn and 40nn with nn = vb, 5010, 9010, and 5000, 9000 on one register
ROMS_SKIP ==
  {SkipRom(va, vb, op[1], IF op[2] < 0 THEN vb ELSE op[2]) :
     va \in SkipValues, vb \in SkipValues,
     op \in {<<48, -1>>, <<64, -1>>, <<80, 16>>, <<144, 16>>,
             <<80, 0>>, <<144, 0>>}}

\* a jump to self followed by bytes that are not 0, len bytes in all
LoadRom(len) ==
  [k \in 1..len |-> IF k = 1 THEN 18 ELSE IF k = 2 THEN 0 ELSE (k % 255) + 1]

ROMS_LOAD == {LoadRom(len) : len \in LoadLens}

\* a sprite clipped at the bottom right corner, then n rows of the same
\* sprite at (vx, vy)
DrawRom(vx, vy, n) ==
  << 96, 58,       \* 0x200: 603A  V0 := 58
     97, 29,       \* 0x202: 611D  V1 := 29
     162, 16,      \* 0x204: A210  I := 0x210
     208, 21,      \* 0x206: D015  draw 5 rows at (58, 29)
     96, vx,       \* 0x208: 60xx  V0 := vx
     97, vy,       \* 0x20A: 61yy  V1 := vy
     208, 16 + n,  \* 0x20C: D01n  draw n rows at (vx, vy)
     18, 14,       \* 0x20E: 120E  jump to self
     129, 255, 90, 1, 128, 60, 195, 170, 85, 15, 240, 24, 126, 153, 231
                   \* 0x210: sprite 81 FF 5A 01 80 3C C3 AA 55 0F F0 18 7E 99 E7
  >>

ROMS_DRAW == {DrawRom(vx, vy, n) : vx \in DrawXs, vy \in DrawYs, n \in DrawNs}

\* VF := f, Vx := va, Vy := vb, then the instruction hi lo
AluRom(f, x, va, y, vb, hi, lo) ==
  << 111, f,       \* 0x200: 6Fff  VF := f
     96 + x, va,   \* 0x202: 6xaa  Vx := va
     96 + y, vb,   \* 0x204: 6ybb  Vy := vb
     hi, lo,       \* 0x206: the instruction
     18, 8         \* 0x208: 1208  jump to self
  >>

\* 8XYN on every pair of AluRegs, 7XNN on V0 and VF
ROMS_ALU ==
  {AluRom(f, r[1], va, r[2], vb, 128 + r[1], 16 * r[2] + n) :
     f \in {0, 1}, r \in AluRegs, va \in AluValues, vb \in AluValues,
     n \in AluOps}
  \cup {AluRom(f, x, va, 1, vb, 112 + x, vb) :
          f \in {0, 1}, x \in {0, 15}, va \in AluValues, vb \in AluValues}

\* ------------------------------------------------------------------------
\* State
\* ------------------------------------------------------------------------
VARIABLES
  PC, memory, V, I, sub_stack, DT, ST, keys, screen, prev_screen,
  vblank_interrupt, last_pressed_key,   \* the fields of Emulator
  result,      \* what the last execute() returned
  call,        \* the last public operation called, with its arguments
  n_vblank,    \* vblank() calls made so far
  n_draw,      \* DXYN instructions completed so far
  vblank_seen, \* a vblank() call was made since the last completed DXYN
  draws,       \* the last two completed DXYN, the latest last
  release_reported, \* the argument of the last set_key(k, false) that found
                    \* its key pressed, since the last completed instruction
  n_call,      \* 2NNN instructions completed so far
  n_ret,       \* 00EE instructions completed so far
  changed,     \* what the last screen_changed() returned
  source,      \* the bytes load_rom() was given
  app          \* the run loop of app.rs: its locals, the audio device and
               \* what its last iteration did

emu_vars == << PC, memory, V, I, sub_stack, DT, ST, keys, screen, prev_screen,
               vblank_interrupt, last_pressed_key >>
vars == << PC, memory, V, I, sub_stack, DT, ST, keys, screen, prev_screen,
           vblank_interrupt, last_pressed_key, result, call, n_vblank, n_draw,
           vblank_seen, draws, release_reported, n_call, n_ret, changed,
           source, app >>

\* the machine as one value
self ==
  [PC |-> PC, memory |-> memory, V |-> V, I |-> I, sub_stack |-> sub_stack,
   DT |-> DT, ST |-> ST, keys |-> keys, screen |-> screen,
   prev_screen |-> prev_screen, vblank_interrupt |-> vblank_interrupt,
   last_pressed_key |-> last_pressed_key]

\* the machine is m
Is(m) ==
  /\ PC = m.PC
  /\ memory = m.memory
  /\ V = m.V
  /\ I = m.I
  /\ sub_stack = m.sub_stack
  /\ DT = m.DT
  /\ ST = m.ST
  /\ keys = m.keys
  /\ screen = m.screen
  /\ prev_screen = m.prev_screen
  /\ vblank_interrupt = m.vblank_interrupt
  /\ last_pressed_key = m.last_pressed_key

\* the machine becomes m
Becomes(m) ==
  /\ PC' = m.PC
  /\ memory' = m.memory
  /\ V' = m.V
  /\ I' = m.I
  /\ sub_stack' = m.sub_stack
  /\ DT' = m.DT
  /\ ST' = m.ST
  /\ keys' = m.keys
  /\ screen' = m.screen
  /\ prev_screen' = m.prev_screen
  /\ vblank_interrupt' = m.vblank_interrupt
  /\ last_pressed_key' = m.last_pressed_key

\* a call of op; pc, a, b: the fetch of execute(); latch: the last released
\* key before execute() or set_key(); key, pressed: the arguments of set_key(); was: the
\* state of that key before set_key()
CallOf(op, pc, a, b, latch, key, pressed, was) ==
  [op |-> op, pc |-> pc, a |-> a, b |-> b, latch |-> latch,
   key |-> key, pressed |-> pressed, was |-> was]

\* ------------------------------------------------------------------------
\* The run loop of app.rs
\* ------------------------------------------------------------------------
CYCLE_DELAY == 1000000 \div 540
TIMER_DELAY == 1000000 \div 60
VBLANK_DELAY == 1000000 \div 60

\* the locals of run() before the loop; the audio device is opened paused.
\* at: the loop runs, was left by Quit, or was left by an error; iter: the
\* iterations made; branch, calls, events: the state matched, the calls made
\* on the machine and the events found in the last iteration
AppInit ==
  [state |-> "Running", audio |-> "paused", timer_delta |-> 0,
   cpu_delta |-> 0, vblank_delta |-> 0, at |-> "loop", iter |-> 0,
   branch |-> "none", calls |-> << >>, err |-> NoResult,
   events |-> << >>]

\* Keymap::translate_action on an SDL event
translate_action(event) ==
  CASE event = "Num1Down" -> [action |-> "EmulateKeyState", key |-> 1, state |-> TRUE]
    [] event = "Num1Up" -> [action |-> "EmulateKeyState", key |-> 1, state |-> FALSE]
    [] event = "SpaceDown" -> [action |-> "TogglePause", key |-> 0, state |-> FALSE]
    [] event = "EscapeDown" -> [action |-> "Quit", key |-> 0, state |-> FALSE]
    [] OTHER -> [action |-> "None", key |-> 0, state |-> FALSE]

\* one event of the batch: r holds the machine, the locals and the calls made
on_event(r, event) ==
  LET act == translate_action(event)
  IN CASE act.action = "EmulateKeyState" ->
            [r EXCEPT !.emu = set_key(r.emu, act.key, act.state),
                      !.calls = Append(r.calls, "set_key")]
       [] act.action = "Quit" -> [r EXCEPT !.state = "Quit"]
       [] act.action = "TogglePause" ->
            [r EXCEPT !.state = IF r.state = "Running" THEN "Paused"
                                ELSE "Running"]
       [] OTHER -> IF event = "Quit" THEN [r EXCEPT !.state = "Quit"] ELSE r

\* for event in event_pump.poll_iter()
RECURSIVE poll_iter(_, _, _)
poll_iter(r, batch, i) ==
  IF i > Len(batch) THEN r ELSE poll_iter(on_event(r, batch[i]), batch, i + 1)

\* while cpu_delta >= CYCLE_DELAY: an error of execute() leaves run()
RECURSIVE run_cpu(_, _)
run_cpu(r, rnd) ==
  IF r.cpu_delta < CYCLE_DELAY THEN r
  ELSE LET o == execute(r.emu, rnd)
           r1 == [r EXCEPT !.emu = o.emu, !.calls = Append(r.calls, "execute")]
       IN IF o.res = Ok
          THEN run_cpu([r1 EXCEPT !.cpu_delta = r.cpu_delta - CYCLE_DELAY], rnd)
          ELSE [r1 EXCEPT !.err = o.res]

\* while timer_delta >= TIMER_DELAY
RECURSIVE run_timers(_)
run_timers(r) ==
  IF r.timer_delta < TIMER_DELAY THEN r
  ELSE run_timers([r EXCEPT !.emu = decrease_timers(r.emu),
                            !.timer_delta = r.timer_delta - TIMER_DELAY,
                            !.calls = Append(r.calls, "decrease_timers")])

\* the sound gate at the end of the Running branch
\* mutant: the tone plays while ST is not 0
sound_gate_nonzero(r) ==
  [r EXCEPT !.audio = IF r.emu.ST > 0 THEN "playing" ELSE "paused"]

sound_gate(r) ==
  [r EXCEPT !.audio = IF r.emu.ST > 1 THEN "playing" ELSE "paused"]

\* the Running branch of the loop
run_running(r, elapsed, rnd) ==
  LET r1 == [r EXCEPT !.timer_delta = r.timer_delta + elapsed,
                      !.cpu_delta = r.cpu_delta + elapsed,
                      !.vblank_delta = r.vblank_delta + elapsed]
      r2 == IF r1.vblank_delta >= VBLANK_DELAY
            THEN [r1 EXCEPT !.emu = vblank(r1.emu),
                            !.vblank_delta = r1.vblank_delta - VBLANK_DELAY,
                            !.calls = Append(r1.calls, "vblank")]
            ELSE r1
      r3 == run_cpu(r2, rnd)
  IN IF r3.err # NoResult THEN r3 ELSE sound_gate(run_timers(r3))

\* the frame drawn at the end of an iteration
run_frame(r) ==
  [r EXCEPT !.emu = screen_changed(r.emu).emu,
            !.calls = Append(r.calls, "screen_changed")]

\* mutant: the time spent paused is added to the accumulators
run_iteration_counts_pause(r, batch, elapsed, rnd) ==
  LET r1 == poll_iter([r EXCEPT !.calls = << >>, !.events = batch], batch, 1)
      r2 == [r1 EXCEPT !.branch = r1.state, !.iter = r.iter + 1]
      r3 == run_running(r2, elapsed, rnd)
  IN CASE r2.state = "Running" ->
            IF r3.err # NoResult
            THEN [r3 EXCEPT !.at = "failed", !.audio = "closed"]
            ELSE run_frame(r3)
       [] r2.state = "Paused" ->
            run_frame([r2 EXCEPT !.audio = "paused",
                                 !.timer_delta = r2.timer_delta + elapsed,
                                 !.cpu_delta = r2.cpu_delta + elapsed,
                                 !.vblank_delta = r2.vblank_delta + elapsed])
       [] r2.state = "Quit" -> [r2 EXCEPT !.at = "done", !.audio = "paused"]

\* one iteration of the loop, or the way out of it: after Quit the device is
\* paused; an error returns from run(), which drops the device
run_iteration(r, batch, elapsed, rnd) ==
  LET r1 == poll_iter([r EXCEPT !.calls = << >>, !.events = batch], batch, 1)
      r2 == [r1 EXCEPT !.branch = r1.state, !.iter = r.iter + 1]
      r3 == run_running(r2, elapsed, rnd)
  IN CASE r2.state = "Running" ->
            IF r3.err # NoResult
            THEN [r3 EXCEPT !.at = "failed", !.audio = "closed"]
            ELSE run_frame(r3)
       [] r2.state = "Paused" -> run_frame([r2 EXCEPT !.audio = "paused"])
       [] r2.state = "Quit" -> [r2 EXCEPT !.at = "done", !.audio = "paused"]

InitWith(roms) ==
  /\ \E rom \in roms : Is(load_rom(rom)) /\ source = rom
  /\ result = NoResult
  /\ call = CallOf("load_rom", 0, 0, 0, None, 0, FALSE, FALSE)
  /\ n_vblank = 0
  /\ n_draw = 0
  /\ vblank_seen = FALSE
  /\ draws = << >>
  /\ release_reported = None
  /\ n_call = 0
  /\ n_ret = 0
  /\ changed = FALSE
  /\ app = AppInit

Init == InitWith(ROMS)

\* ------------------------------------------------------------------------
\* Calls of the public operations.  No call follows a panic.
\* ------------------------------------------------------------------------
Running == result.kind # "Panic"

\* execute() completed a DXYN: it returned Ok past the vblank gate
DrawCompleted(m, r) ==
  /\ m.PC + 1 < MEM_SIZE
  /\ nibble_h(m.memory[m.PC]) = 13
  /\ r.res.kind = "Ok"
  /\ r.emu.PC = m.PC + 2

\* execute() was stopped by the vblank gate of DXYN or by the wait of FX0A
Blocked(m, r) ==
  /\ m.PC + 1 < MEM_SIZE
  /\ \/ nibble_h(m.memory[m.PC]) = 13
     \/ nibble_h(m.memory[m.PC]) = 15 /\ m.memory[m.PC + 1] = 10
  /\ r.res.kind = "Ok"
  /\ r.emu.PC = m.PC

\* execute() completed an instruction
Completed(m, r) == r.res.kind = "Ok" /\ ~Blocked(m, r)

\* what a completed DXYN drew: the instruction, the start position, the
\* sprite rows it read, the framebuffer before and after, VF after
DrawRecord(m, r) ==
  LET a == m.memory[m.PC]
      b == m.memory[m.PC + 1]
      y == m.V[nibble_h(b)] % 32
      rows == IF nibble_l(b) < DISPLAY_HEIGHT - y
              THEN nibble_l(b) ELSE DISPLAY_HEIGHT - y
  IN [a |-> a, b |-> b, I |-> m.I,
      x |-> m.V[nibble_l(a)] % 64, y |-> y,
      sprite |-> [k \in 1..rows |-> m.memory[m.I + k - 1]],
      before |-> m.screen, after |-> r.emu.screen, vf |-> r.emu.V[15]]

\* the bytes the generator may deliver to this call: it is advanced by
\* CXNN only
Drawn(m) ==
  IF m.PC + 1 < MEM_SIZE /\ nibble_h(m.memory[m.PC]) = 12
  THEN RandBytes
  ELSE {0}

\* execute() completed the instruction with first nibble h and second byte
\* in bs
OpCompleted(m, r, h, bs) ==
  /\ m.PC + 1 < MEM_SIZE
  /\ nibble_h(m.memory[m.PC]) = h
  /\ m.memory[m.PC + 1] \in bs
  /\ r.res.kind = "Ok"

\* 2NNN is followed up to the depth MaxStack
StackRoom(m) ==
  \/ m.PC + 1 >= MEM_SIZE
  \/ nibble_h(m.memory[m.PC]) # 2
  \/ Len(m.sub_stack) < MaxStack

Execute ==
  /\ Running
  /\ StackRoom(self)
  /\ \E rnd \in Drawn(self) :
       LET r == execute(self, rnd)
           fetch == IF PC + 1 < MEM_SIZE
                    THEN CallOf("execute", PC, memory[PC], memory[PC + 1],
                                last_pressed_key, 0, FALSE, FALSE)
                    ELSE CallOf("execute", PC, 0, 0,
                                last_pressed_key, 0, FALSE, FALSE)
       IN /\ Becomes(r.emu)
          /\ result' = r.res
          /\ call' = fetch
          /\ n_draw' = IF DrawCompleted(self, r) THEN n_draw + 1 ELSE n_draw
          /\ vblank_seen' = IF DrawCompleted(self, r) THEN FALSE ELSE vblank_seen
          /\ draws' = IF DrawCompleted(self, r)
                      THEN IF draws = << >>
                           THEN << DrawRecord(self, r) >>
                           ELSE << draws[Len(draws)], DrawRecord(self, r) >>
                      ELSE draws
          /\ release_reported' = IF Completed(self, r) THEN None
                                 ELSE release_reported
          /\ n_call' = IF OpCompleted(self, r, 2, 0..255)
                       THEN n_call + 1 ELSE n_call
          /\ n_ret' = IF self.memory[self.PC % MEM_SIZE] = 0
                         /\ OpCompleted(self, r, 0, {238})
                      THEN n_ret + 1 ELSE n_ret
          /\ UNCHANGED << n_vblank, changed, source, app >>

Vblank ==
  /\ Running
  /\ n_vblank < MaxVblank
  /\ Becomes(vblank(self))
  /\ call' = CallOf("vblank", 0, 0, 0, None, 0, FALSE, FALSE)
  /\ n_vblank' = n_vblank + 1
  /\ vblank_seen' = TRUE
  /\ UNCHANGED << result, n_draw, draws, release_reported, n_call, n_ret,
                  changed, source, app >>

DecreaseTimers ==
  /\ Running
  /\ Becomes(decrease_timers(self))
  /\ call' = CallOf("decrease_timers", 0, 0, 0, None, 0, FALSE, FALSE)
  /\ UNCHANGED << result, n_vblank, n_draw, vblank_seen, draws,
                  release_reported, n_call, n_ret, changed, source, app >>

SetKey ==
  /\ Running
  /\ \E key \in KeyArgs, pressed \in BOOLEAN :
       /\ Becomes(set_key(self, key, pressed))
       /\ call' = CallOf("set_key", 0, 0, 0, last_pressed_key, key, pressed,
                         keys[key % 16])
       /\ release_reported' = IF keys[key % 16] /\ ~pressed THEN key
                              ELSE release_reported
  /\ UNCHANGED << result, n_vblank, n_draw, vblank_seen, draws, n_call,
                  n_ret, changed, source, app >>

ScreenChanged ==
  /\ Running
  /\ Becomes(screen_changed(self).emu)
  /\ changed' = screen_changed(self).changed
  /\ call' = CallOf("screen_changed", 0, 0, 0, None, 0, FALSE, FALSE)
  /\ UNCHANGED << result, n_vblank, n_draw, vblank_seen, draws,
                  release_reported, n_call, n_ret, source, app >>

\* the locals of run() together with the machine m, and back
AppWith(m) ==
  [emu |-> m, state |-> app.state, audio |-> app.audio,
   timer_delta |-> app.timer_delta, cpu_delta |-> app.cpu_delta,
   vblank_delta |-> app.vblank_delta, at |-> app.at, iter |-> app.iter,
   branch |-> app.branch, calls |-> app.calls, err |-> app.err,
   events |-> app.events]

AppOf(r) ==
  [state |-> r.state, audio |-> r.audio, timer_delta |-> r.timer_delta,
   cpu_delta |-> r.cpu_delta, vblank_delta |-> r.vblank_delta, at |-> r.at,
   iter |-> r.iter, branch |-> r.branch, calls |-> r.calls, err |-> r.err,
   events |-> r.events]

\* one iteration of the loop of run()
RunLoop ==
  /\ Running
  /\ app.at = "loop"
  /\ app.iter < MaxIter
  /\ \E batch \in Batches, elapsed \in Elapsed, rnd \in Drawn(self) :
       LET r == run_iteration(AppWith(self), batch, elapsed, rnd)
       IN /\ Becomes(r.emu)
          /\ app' = AppOf(r)
          /\ result' = IF r.err # NoResult THEN r.err ELSE result
  /\ call' = CallOf("run", 0, 0, 0, None, 0, FALSE, FALSE)
  /\ UNCHANGED << n_vblank, n_draw, vblank_seen, draws, release_reported,
                  n_call, n_ret, changed, source >>

Next == Execute \/ Vblank \/ DecreaseTimers \/ SetKey

Spec == Init /\ [][Next]_vars

\* the programs that call and return
InitCall == InitWith(ROMS_CALL)
SpecCall == InitCall /\ [][Next]_vars

\* the arithmetic programs, run by execute() alone: set_key(), vblank() and
\* decrease_timers() do not touch the registers
InitAlu == InitWith(ROMS_ALU)
SpecAlu == InitAlu /\ [][Execute]_vars

\* the program that sets the timers, run by execute() and decrease_timers():
\* set_key() and vblank() do not touch the timers
InitTimer == InitWith(ROMS_TIMER)
NextTimer == Execute \/ DecreaseTimers
SpecTimer == InitTimer /\ [][NextTimer]_vars

\* the programs that draw, run by execute(), vblank() and screen_changed():
\* set_key() and decrease_timers() do not touch the framebuffer
InitScreen == InitWith(ROMS_SCREEN)
NextScreen == Execute \/ Vblank \/ ScreenChanged
SpecScreen == InitScreen /\ [][NextScreen]_vars

\* the drawing programs, run by execute() and vblank()
InitDraw == InitWith(ROMS_DRAW)
NextDraw == Execute \/ Vblank
SpecDraw == InitDraw /\ [][NextDraw]_vars

\* programs of the lengths LoadLens
InitLoad == InitWith(ROMS_LOAD)
SpecLoad == InitLoad /\ [][Next]_vars

\* the skip programs, run by execute() alone
InitSkip == InitWith(ROMS_SKIP)
SpecSkip == InitSkip /\ [][Execute]_vars

\* vblank() as the pacer calls it for as long as the program runs: the calls
\* are not counted
VblankTick ==
  /\ Running
  /\ Becomes(vblank(self))
  /\ call' = CallOf("vblank", 0, 0, 0, None, 0, FALSE, FALSE)
  /\ vblank_seen' = TRUE
  /\ UNCHANGED << result, n_vblank, n_draw, draws, release_reported, n_call,
                  n_ret, changed, source, app >>

\* a drawing program under a pacer that keeps calling vblank() and
\* execute()
ROMS_LIVE == {ROM_BLINK} \cup {BlinkRom(vx, 1) : vx \in {0, 57, 60, 63}}
InitLive == InitWith(ROMS_LIVE)
NextLive == Execute \/ VblankTick \/ DecreaseTimers
SpecLive ==
  InitLive /\ [][NextLive]_vars /\ WF_vars(Execute) /\ WF_vars(VblankTick)

\* draws, a wait for a key and running timers under all four operations
InitGate == InitWith(ROMS_GATE)
SpecGate == InitGate /\ [][Next]_vars

\* programs that point I at the end of memory
InitEdge == InitWith(ROMS_EDGE)
SpecEdge == InitEdge /\ [][Next]_vars

\* the application: the machine is driven by the run loop only
InitApp == InitWith(ROMS_APP)
SpecApp == InitApp /\ [][RunLoop]_vars

\* the programs that write to memory and read the glyph table
InitMem == InitWith(ROMS_MEM)
SpecMem == InitMem /\ [][Next]_vars

\* ------------------------------------------------------------------------
\* Properties
\* ------------------------------------------------------------------------
\* the instruction execute() is about to fetch
FetchOk == PC + 1 < MEM_SIZE
OpA == memory[PC]
OpB == memory[PC + 1]
AtDXYN == FetchOk /\ nibble_h(OpA) = 13
AtFX0A == FetchOk /\ nibble_h(OpA) = 15 /\ OpB = 10
AtBNNN == FetchOk /\ nibble_h(OpA) = 11
At00EE == FetchOk /\ OpA = 0 /\ OpB = 238
At2NNN == FetchOk /\ nibble_h(OpA) = 2

\* the step is a call of execute()
ExecuteCalled == call'.op = "execute"

\* the last call was an execute() stopped by DXYN's gate or FX0A's wait
WasBlocked ==
  /\ call.op = "execute"
  /\ result.kind = "Ok"
  /\ PC = call.pc
  /\ \/ nibble_h(call.a) = 13
     \/ nibble_h(call.a) = 15 /\ call.b = 10

Blank == [r \in 0..(DISPLAY_HEIGHT - 1) |-> {}]

\* C1: an execute() that decodes DXYN while the vblank latch is false
\* returns Ok, leaves PC at the DXYN, and changes neither the framebuffer,
\* the registers nor the memory, so the same instruction is decoded again.
C1_BlockedDraw ==
  [][(ExecuteCalled /\ AtDXYN /\ ~vblank_interrupt)
       => /\ result' = Ok
          /\ PC' = PC
          /\ screen' = screen
          /\ V' = V
          /\ memory' = memory
          /\ ~vblank_interrupt']_vars

C1_Witness ==
  /\ call.op = "execute"
  /\ nibble_h(call.a) = 13
  /\ result = Ok
  /\ PC = call.pc
  /\ ~vblank_interrupt

\* C2: a completed DXYN clears the vblank latch and had a vblank() call
\* since the completed DXYN before it; completed draws never outnumber
\* vblank() calls, under every interleaving of the four operations.
C2_DrawsNeedVblank ==
  /\ [](n_draw <= n_vblank)
  /\ [][(ExecuteCalled /\ AtDXYN /\ result'.kind = "Ok" /\ PC' = PC + 2)
          => (vblank_seen /\ ~vblank_interrupt')]_vars

C2_Witness == n_draw = 2 /\ n_vblank = 2

\* C3: after a completed DXYN, VF is 1 if a set pixel of some row was
\* cleared and 0 otherwise, whatever VF held before.
C3_CollisionFlag ==
  [][(ExecuteCalled /\ AtDXYN /\ result'.kind = "Ok" /\ PC' = PC + 2)
       => V'[15] = (IF \E r \in 0..(DISPLAY_HEIGHT - 1) :
                         screen[r] \ screen'[r] # {}
                    THEN 1 ELSE 0)]_vars

\* two completed draws of the same sprite rows at the same place, through
\* registers other than VF
SameDraw(d, e) ==
  /\ d.I = e.I
  /\ d.sprite = e.sprite
  /\ d.x = e.x
  /\ d.y = e.y
  /\ nibble_l(d.b) = nibble_l(e.b)
  /\ nibble_l(d.a) # 15 /\ nibble_h(d.b) # 15
  /\ nibble_l(e.a) # 15 /\ nibble_h(e.b) # 15

DrawnTwice ==
  /\ Len(draws) = 2
  /\ SameDraw(draws[1], draws[2])
  /\ draws[2].before = draws[1].after

\* C4: drawing the same sprite twice at the same position restores the
\* framebuffer that preceded the first draw; from a blank framebuffer and
\* a sprite with a visible pixel, VF is 1 after the second draw.
C4_DrawTwice ==
  DrawnTwice
    => /\ draws[2].after = draws[1].before
       /\ (draws[1].before = Blank /\ draws[1].after # Blank)
            => draws[2].vf = 1

C4_Witness ==
  /\ DrawnTwice
  /\ draws[1].before # Blank
  /\ draws[1].after # draws[1].before
  /\ screen = draws[1].before

\* C5: at FX0A, execute() leaves PC in place as long as no release of a
\* pressed key was reported; after set_key(k, false) of a pressed key k
\* (a key index 0..15) it advances PC by 2 and sets Vx to k.
C5_WaitForKey ==
  [][(ExecuteCalled /\ AtFX0A)
       => /\ result'.kind = "Ok"
          /\ release_reported = None => PC' = PC
          /\ release_reported # None => PC' = PC + 2
          /\ release_reported \in 0..15
               => V'[nibble_l(OpA)] = release_reported]_vars

C5_Witness ==
  /\ call.op = "execute"
  /\ nibble_h(call.a) = 15 /\ call.b = 10
  /\ call.latch \in 0..15
  /\ PC = call.pc + 2
  /\ V[nibble_l(call.a)] = call.latch

\* C6: after every execute() that completes an instruction, whichever it
\* was, the last-released-key latch is empty.
C6_LatchCleared ==
  (call.op = "execute" /\ result.kind = "Ok" /\ ~WasBlocked)
    => last_pressed_key = None

\* a release was latched when an instruction other than FX0A completed
C6_Witness ==
  /\ call.op = "execute"
  /\ result.kind = "Ok"
  /\ ~WasBlocked
  /\ ~(nibble_h(call.a) = 15 /\ call.b = 10)
  /\ call.latch # None
  /\ last_pressed_key = None

\* C7: the index set_key records for a release is its argument masked to
\* 0..15.
C7_ReleaseMasked ==
  (call.op = "set_key" /\ ~call.pressed /\ call.was)
    => last_pressed_key = call.key % 16

\* the machine state other than PC is left as it was
RestUnchanged ==
  UNCHANGED << memory, V, I, sub_stack, DT, ST, keys, screen, prev_screen,
               vblank_interrupt, last_pressed_key >>

\* C8: BNNN with V0 + nnn >= 4096 returns the invalid-jump error with the
\* instruction's bytes and address, leaves PC there and changes nothing
\* else, and does so again when called again; otherwise PC is V0 + nnn.
C8_JumpV0 ==
  [][(ExecuteCalled /\ AtBNNN)
       => IF V[0] + nnn(OpA, OpB) >= 4096
          THEN /\ result' = InvalidJump(OpA, OpB, PC)
               /\ PC' = PC
               /\ RestUnchanged
               /\ (call.op = "execute" /\ result.kind = "InvalidJump")
                    => result' = result
          ELSE /\ result' = Ok
               /\ PC' = V[0] + nnn(OpA, OpB)]_vars

C8_Witness ==
  /\ call.op = "execute"
  /\ nibble_h(call.a) = 11
  /\ result = InvalidJump(call.a, call.b, call.pc)
  /\ PC = call.pc
  /\ V[0] + nnn(call.a, call.b) >= 4096

\* the two-byte patterns that no arm of the match accepts
NoInstruction(a, b) ==
  \/ nibble_h(a) = 5 /\ nibble_l(b) # 0
  \/ nibble_h(a) = 8 /\ nibble_l(b) \in {8, 9, 10, 11, 12, 13, 15}
  \/ nibble_h(a) = 9 /\ nibble_l(b) # 0
  \/ nibble_h(a) = 14 /\ b \notin {158, 161}
  \/ nibble_h(a) = 15 /\ b \notin {7, 10, 21, 24, 30, 41, 51, 85, 101}

\* C9: a pattern of no instruction makes execute() return the
\* invalid-opcode error with the two fetched bytes and the fetch address,
\* leave PC at fetch address + 2 and change nothing else; in the freshly
\* loaded machine the match does so for each of the 256 x 256 patterns
\* that are no instruction.
C9_InvalidOpcode ==
  /\ [][(ExecuteCalled /\ FetchOk /\ NoInstruction(OpA, OpB))
          => /\ result' = InvalidOpcode(OpA, OpB, PC)
             /\ PC' = PC + 2
             /\ RestUnchanged]_vars
  /\ [](call.op = "load_rom"
          => \A a \in 0..255, b \in 0..255 :
               NoInstruction(a, b)
                 => Dispatch([self EXCEPT !.PC = PC + 2], a, b, 0)
                      = Return([self EXCEPT !.PC = PC + 2],
                               InvalidOpcode(a, b, PC)))

C9_Witness ==
  /\ call.op = "execute"
  /\ NoInstruction(call.a, call.b)
  /\ result = InvalidOpcode(call.a, call.b, call.pc)
  /\ PC = call.pc + 2

\* C10: 0nnn other than 00E0 and 00EE returns the machine-code-subroutine
\* error, carrying the fetch address of the instruction.
C10_MachineSubroutine ==
  (/\ call.op = "execute"
   /\ result.kind # "Panic"
   /\ nibble_h(call.a) = 0
   /\ ~(call.a = 0 /\ call.b \in {224, 238}))
    => /\ result.kind = "MachineSubroutine"
       /\ result.addr = call.pc

\* C11: when as many returns as calls have completed, 00EE returns the
\* invalid-return error with the address of that 00EE, does not panic and
\* leaves the call stack empty.
C11_InvalidReturn ==
  [][(ExecuteCalled /\ At00EE /\ n_call = n_ret)
       => /\ result' = InvalidReturn(PC)
          /\ sub_stack' = << >>]_vars

C11_Witness ==
  /\ call.op = "execute"
  /\ call.a = 0
  /\ call.b = 238
  /\ n_call = 2
  /\ n_ret = 2
  /\ result = InvalidReturn(call.pc)
  /\ sub_stack = << >>

\* the return addresses on the call stack of m are even
StackEven(m) == \A i \in 1..Len(m.sub_stack) : m.sub_stack[i] % 2 = 0

\* the instruction a b, run with registers of m, sets PC to an odd target
OddJump(m, a, b) ==
  \/ nibble_h(a) \in {1, 2} /\ nnn(a, b) % 2 = 1
  \/ /\ nibble_h(a) = 11
     /\ (m.V[0] + nnn(a, b)) % 2 = 1
     /\ m.V[0] + nnn(a, b) < MEM_SIZE

\* C12 as stated: the program counter is even in every reachable state.
C12_PcEven == PC % 2 = 0

\* C12 amended: from an even PC and even return addresses, every operation
\* leaves PC and the return addresses even, except an execute() of 1nnn or
\* 2nnn with odd nnn, or of Bnnn with an odd V0 + nnn inside memory; this
\* holds for each of the 65536 opcodes run on a freshly loaded machine.
C12_PcEvenUnlessOddJump ==
  /\ [][(/\ PC % 2 = 0
         /\ StackEven(self)
         /\ ~(ExecuteCalled /\ FetchOk /\ OddJump(self, OpA, OpB)))
          => /\ PC' % 2 = 0
             /\ StackEven(self)']_vars
  /\ [](call.op = "load_rom"
          => \A a \in 0..255, b \in 0..255 :
               ~OddJump(self, a, b)
                 => LET o == Dispatch([self EXCEPT !.PC = PC + 2], a, b, 0)
                    IN o.emu.PC % 2 = 0 /\ StackEven(o.emu))

C12_Witness ==
  /\ call.op = "execute"
  /\ nibble_h(call.a) = 11
  /\ call.pc % 2 = 0
  /\ result = Ok
  /\ PC = 518

\* the machine was just loaded with a program that starts with rom
Fresh(rom) ==
  /\ call.op = "load_rom"
  /\ \A k \in 1..Len(rom) : memory[ADDR_START + k - 1] = rom[k]

\* the bytes [0x000, 0x050) of memory mem
Glyphs(mem) == [k \in 0..(Len(SPRITE_DATA) - 1) |-> mem[SPRITE_DATA_START + k]]

\* the glyph table as load_rom() writes it
BuiltinGlyphs == [k \in 0..(Len(SPRITE_DATA) - 1) |-> SPRITE_DATA[k + 1]]

\* the instruction a b is an FX33 or an FX55
IsStore(a, b) == nibble_h(a) = 15 /\ b \in {51, 85}

\* C13 as stated: memory [0x000, 0x050) equals the built-in glyph table in
\* every reachable state.
C13_GlyphsIntact == Glyphs(memory) = BuiltinGlyphs

\* C13 amended: load_rom() leaves the built-in glyph table in memory
\* [0x000, 0x050), and every operation leaves those bytes as they are, except
\* an execute() of FX33 or FX55 with I below 0x050; on the freshly loaded
\* ROM_GLYPH this holds for each of the 65536 opcodes.
C13_GlyphsUnlessStoreBelow ==
  /\ [](call.op = "load_rom" => Glyphs(memory) = BuiltinGlyphs)
  /\ [][~(ExecuteCalled /\ FetchOk /\ IsStore(OpA, OpB) /\ I < Len(SPRITE_DATA))
          => Glyphs(memory') = Glyphs(memory)]_vars
  /\ [](Fresh(ROM_GLYPH)
          => \A a \in 0..255, b \in 0..255 :
               ~IsStore(a, b)
                 => Glyphs(Dispatch([self EXCEPT !.PC = PC + 2], a, b, 0)
                             .emu.memory) = BuiltinGlyphs)

C13_Witness ==
  /\ call.op = "execute"
  /\ call.a = 241
  /\ call.b = 85
  /\ result = Ok
  /\ I = 770
  /\ memory[768] = 254
  /\ Glyphs(memory) = BuiltinGlyphs

\* C14: 2nnn pushes the address of the next instruction and sets PC to nnn;
\* 00EE on a non-empty stack pops the last pushed address into PC; every
\* address on the stack follows a 2nnn, and the depth of the stack is the
\* number of completed calls minus the number of completed returns.
C14_CallReturn ==
  /\ [][(ExecuteCalled /\ At2NNN)
          => /\ result' = Ok
             /\ sub_stack' = Append(sub_stack, PC + 2)
             /\ PC' = nnn(OpA, OpB)]_vars
  /\ [][(ExecuteCalled /\ At00EE /\ sub_stack # << >>)
          => /\ result' = Ok
             /\ PC' = sub_stack[Len(sub_stack)]
             /\ sub_stack' = SubSeq(sub_stack, 1, Len(sub_stack) - 1)]_vars
  /\ [](/\ Len(sub_stack) = n_call - n_ret
        /\ \A i \in 1..Len(sub_stack) :
             nibble_h(memory[sub_stack[i] - 2]) = 2)

C14_Witness ==
  /\ call.op = "execute"
  /\ call.pc = 524
  /\ call.a = 0
  /\ call.b = 238
  /\ result = Ok
  /\ PC = 520
  /\ sub_stack = << 514 >>
  /\ n_call = 2
  /\ n_ret = 1

\* execute() is at an 8XYN with last nibble n; x and y of the instruction
AtAlu(n) == FetchOk /\ nibble_h(OpA) = 8 /\ nibble_l(OpB) = n
OpX == nibble_l(OpA)
OpY == nibble_h(OpB)

\* the registers after 6Fff 6xaa 6ybb
Regs(f, x, va, y, vb) ==
  [k \in 0..15 |-> IF k = y THEN vb ELSE IF k = x THEN va
                   ELSE IF k = 15 THEN f ELSE 0]

\* the registers after 8xyn run on the registers regs
AluV(regs, x, y, n) ==
  Dispatch([self EXCEPT !.PC = PC + 2, !.V = regs], 128 + x, 16 * y + n, 0).emu.V

\* C15: 8xy4 sets VF to 1 iff Vx + Vy > 255 and 8xy5 sets VF to 0 iff
\* Vx < Vy, on the values the registers had before the instruction; Vx
\* (for x other than F, where the flag is the last write) becomes the sum or
\* the difference mod 256. It holds for the programs run and for all 8-bit
\* values of V0 and V1.
C15_AddSub ==
  /\ [][(ExecuteCalled /\ AtAlu(4))
          => /\ V'[15] = IF V[OpX] + V[OpY] > 255 THEN 1 ELSE 0
             /\ OpX # 15 => V'[OpX] = (V[OpX] + V[OpY]) % 256]_vars
  /\ [][(ExecuteCalled /\ AtAlu(5))
          => /\ V'[15] = IF V[OpX] < V[OpY] THEN 0 ELSE 1
             /\ OpX # 15 => V'[OpX] = (V[OpX] - V[OpY]) % 256]_vars
  /\ [](Fresh(AluRom(0, 0, 0, 1, 0, 128, 20))
          => \A va \in 0..255, vb \in 0..255 :
               LET add == AluV(Regs(0, 0, va, 1, vb), 0, 1, 4)
                   sub == AluV(Regs(0, 0, va, 1, vb), 0, 1, 5)
               IN /\ add[0] = (va + vb) % 256
                  /\ add[15] = 1 <=> va + vb > 255
                  /\ add[15] = 0 <=> va + vb <= 255
                  /\ sub[0] = (va - vb) % 256
                  /\ sub[15] = 0 <=> va < vb
                  /\ sub[15] = 1 <=> va >= vb)

C15_Witness ==
  /\ call.op = "execute"
  /\ call.a = 128
  /\ call.b = 20
  /\ result = Ok
  /\ V[0] = 127
  /\ V[1] = 128
  /\ V[15] = 1

\* C16: 8xy7 sets VF to 0 iff Vy < Vx and to 1 otherwise, on the values
\* before the instruction, Vx (x other than F) to (Vy - Vx) mod 256, and
\* leaves Vy alone when y is neither x nor F. It holds for the programs run
\* and for all 8-bit values of V0 and V1.
C16_SubReversed ==
  /\ [][(ExecuteCalled /\ AtAlu(7))
          => /\ V'[15] = IF V[OpY] < V[OpX] THEN 0 ELSE 1
             /\ OpX # 15 => V'[OpX] = (V[OpY] - V[OpX]) % 256
             /\ OpY \notin {OpX, 15} => V'[OpY] = V[OpY]]_vars
  /\ [](Fresh(AluRom(0, 0, 0, 1, 0, 128, 23))
          => \A va \in 0..255, vb \in 0..255 :
               LET sub == AluV(Regs(0, 0, va, 1, vb), 0, 1, 7)
               IN /\ sub[0] = (vb - va) % 256
                  /\ sub[1] = vb
                  /\ sub[15] = 0 <=> vb < va
                  /\ sub[15] = 1 <=> vb >= va)

C16_Witness ==
  /\ call.op = "execute"
  /\ call.a = 128
  /\ call.b = 23
  /\ result = Ok
  /\ V[0] = 255
  /\ V[1] = 0
  /\ V[15] = 0

\* bit k of the byte v
Bit(v, k) == (v \div (2 ^ k)) % 2

\* the byte r is the OR (n = 1), AND (n = 2) or XOR (n = 3) of va and vb
IsBitwise(n, r, va, vb) ==
  /\ r \in 0..255
  /\ \A k \in 0..7 :
       Bit(r, k) = CASE n = 1 -> IF Bit(va, k) + Bit(vb, k) > 0 THEN 1 ELSE 0
                     [] n = 2 -> Bit(va, k) * Bit(vb, k)
                     [] n = 3 -> (Bit(va, k) + Bit(vb, k)) % 2

\* C17: after 8xy1, 8xy2 and 8xy3 VF is 0 for every x and y, also when VF is
\* the destination or a source, and Vx (x other than F) is the OR, AND, XOR
\* of the values Vx and Vy had before. It holds for the programs run and
\* for every x and y in 0..15.
C17_Bitwise ==
  /\ [][\A n \in {1, 2, 3} :
          (ExecuteCalled /\ AtAlu(n))
            => /\ V'[15] = 0
               /\ OpX # 15 => IsBitwise(n, V'[OpX], V[OpX], V[OpY])]_vars
  /\ [](Fresh(AluRom(0, 0, 0, 1, 0, 128, 17))
          => \A x \in 0..15, y \in 0..15, n \in {1, 2, 3} :
               \A va \in AluValues \cup {85}, vb \in AluValues \cup {15} :
                 LET regs == Regs(1, x, va, y, vb)
                     res == AluV(regs, x, y, n)
                 IN /\ res[15] = 0
                    /\ x # 15 => IsBitwise(n, res[x], regs[x], regs[y]))

C17_Witness ==
  /\ call.op = "execute"
  /\ call.a = 129
  /\ call.b = 241
  /\ result = Ok
  /\ V[1] = 129
  /\ V[15] = 0

\* C18: 8xy6 sets VF to bit 0 and 8xyE to bit 7 of the value Vy had before,
\* and Vx (x other than F) to that value shifted right or left by one bit
\* within 8 bits, also when x = y; when x = F, VF ends as the shifted-out
\* bit. It holds for the programs run and for every value of V1.
C18_Shift ==
  /\ [][(ExecuteCalled /\ AtAlu(6))
          => /\ V'[15] = Bit(V[OpY], 0)
             /\ OpX # 15
                  => /\ Bit(V'[OpX], 7) = 0
                     /\ \A k \in 0..6 : Bit(V'[OpX], k) = Bit(V[OpY], k + 1)]_vars
  /\ [][(ExecuteCalled /\ AtAlu(14))
          => /\ V'[15] = Bit(V[OpY], 7)
             /\ OpX # 15
                  => /\ V'[OpX] \in 0..255
                     /\ Bit(V'[OpX], 0) = 0
                     /\ \A k \in 1..7 : Bit(V'[OpX], k) = Bit(V[OpY], k - 1)]_vars
  /\ [](Fresh(AluRom(0, 0, 0, 1, 0, 128, 22))
          => \A r \in AluRegs, va \in AluValues, vb \in 0..255 :
               LET regs == Regs(0, r[1], va, r[2], vb)
                   shr == AluV(regs, r[1], r[2], 6)
                   shl == AluV(regs, r[1], r[2], 14)
               IN /\ shr[15] = vb % 2
                  /\ shl[15] = vb \div 128
                  /\ r[1] # 15 => /\ shr[r[1]] = vb \div 2
                                  /\ shl[r[1]] = (2 * vb) % 256)

C18_Witness ==
  /\ call.op = "execute"
  /\ call.a = 143
  /\ call.b = 30
  /\ result = Ok
  /\ V[1] = 128
  /\ V[15] = 1

\* the result and the flag of 8xy4 (n = 4), 8xy5 (n = 5), 8xy7 (n = 7) on the
\* operands va = Vx and vb = Vy
Arith(n, va, vb) ==
  CASE n = 4 -> (va + vb) % 256
    [] n = 5 -> (va - vb) % 256
    [] n = 7 -> (vb - va) % 256

Flag(n, va, vb) ==
  CASE n = 4 -> IF va + vb > 255 THEN 1 ELSE 0
    [] n = 5 -> IF va < vb THEN 0 ELSE 1
    [] n = 7 -> IF vb < va THEN 0 ELSE 1

\* C19: 8xy4, 8xy5 and 8xy7 read both operands before they write VF: with
\* y = F the value VF had before is the operand, and with x = F the final
\* VF is the carry or borrow flag, not the sum or difference. It holds for
\* the programs run and for all 8-bit values of VF and V1.
C19_FlagOperand ==
  /\ [][\A n \in {4, 5, 7} :
          (ExecuteCalled /\ AtAlu(n))
            => /\ (OpY = 15 /\ OpX # 15)
                    => V'[OpX] = Arith(n, V[OpX], V[15])
               /\ OpY = 15 => V'[15] = Flag(n, V[OpX], V[15])
               /\ OpX = 15 => V'[15] = Flag(n, V[15], V[OpY])]_vars
  /\ [](Fresh(AluRom(0, 15, 0, 1, 0, 143, 20))
          => \A n \in {4, 5, 7}, vf \in 0..255, v1 \in 0..255 :
               LET regs == Regs(vf, 1, v1, 1, v1)
                   xf == AluV(regs, 15, 1, n)
                   yf == AluV(regs, 1, 15, n)
                   ff == AluV(regs, 15, 15, n)
               IN /\ xf[15] = Flag(n, vf, v1)
                  /\ xf[1] = v1
                  /\ yf[1] = Arith(n, v1, vf)
                  /\ yf[15] = Flag(n, v1, vf)
                  /\ ff[15] = Flag(n, vf, vf))

C19_Witness ==
  /\ call.op = "execute"
  /\ call.a = 143
  /\ call.b = 20
  /\ result = Ok
  /\ V[1] = 255
  /\ V[15] = 1

\* C20: 7xnn sets Vx to (Vx + nn) mod 256 and no other register: for x other
\* than F, VF keeps its value also when the sum exceeds 255. It holds for the
\* programs run and for all 8-bit values of V0 and nn.
C20_AddImmediate ==
  /\ [][(ExecuteCalled /\ FetchOk /\ nibble_h(OpA) = 7)
          => /\ V'[OpX] = (V[OpX] + OpB) % 256
             /\ \A k \in 0..15 : k # OpX => V'[k] = V[k]]_vars
  /\ [](Fresh(AluRom(0, 0, 0, 1, 0, 112, 0))
          => \A f \in {0, 1, 255}, va \in 0..255, nn \in 0..255 :
               LET regs == Regs(f, 0, va, 0, va)
                   res == Dispatch([self EXCEPT !.PC = PC + 2, !.V = regs],
                                   112, nn, 0).emu.V
               IN /\ res[0] = (va + nn) % 256
                  /\ res[15] = f)

C20_Witness ==
  /\ call.op = "execute"
  /\ call.a = 112
  /\ call.b = 255
  /\ result = Ok
  /\ V[0] = 127
  /\ V[15] = 0

\* execute() is at the FXNN with second byte b
AtFX(b) == FetchOk /\ nibble_h(OpA) = 15 /\ OpB = b

\* register contents for the store and load of all registers
BulkRegs == {[k \in 0..15 |-> (17 * k + 3) % 256], [k \in 0..15 |-> 255 - k]}

\* addresses for the store and load of V0..Vx: the glyph table, the program,
\* free memory and the last x + 1 bytes of memory
BulkAddrs(x) == {0, ADDR_START, 768, MEM_SIZE - (x + 1)}

\* the machine after FX55, I := i, all registers := 0 and FX65, started with
\* the registers regs and I = i
StoreOf(regs, i, x) ==
  Dispatch([self EXCEPT !.PC = PC + 2, !.V = regs, !.I = i], 240 + x, 85, 0)

LoadOf(regs, i, x) ==
  Dispatch([StoreOf(regs, i, x).emu EXCEPT !.I = i, !.V = [k \in 0..15 |-> 0]],
           240 + x, 101, 0)

\* the memories mem and old are equal outside start, ..., start + n - 1
RECURSIVE SameOutside(_, _, _, _)
SameOutside(mem, old, start, n) ==
  IF n = 0 THEN mem = old
  ELSE SameOutside([mem EXCEPT ![start + n - 1] = old[start + n - 1]],
                   old, start, n - 1)

\* C21: FX55 copies V0..Vx to memory[I..I+x] and FX65 copies memory[I..I+x]
\* to V0..Vx; both add x + 1 to I and leave every other register and memory
\* byte alone. Stored, then loaded from the same address into cleared
\* registers, V0..Vx have their first values again; this holds for every x
\* and for addresses up to I + x + 1 = 4096.
C21_StoreLoad ==
  /\ [][(ExecuteCalled /\ AtFX(85) /\ I + OpX + 1 <= MEM_SIZE)
          => /\ result' = Ok
             /\ \A k \in I..(I + OpX) : memory'[k] = V[k - I]
             /\ SameOutside(memory', memory, I, OpX + 1)
             /\ I' = I + OpX + 1
             /\ V' = V]_vars
  /\ [][(ExecuteCalled /\ AtFX(101) /\ I + OpX + 1 <= MEM_SIZE)
          => /\ result' = Ok
             /\ \A k \in 0..15 :
                  V'[k] = IF k <= OpX THEN memory[I + k] ELSE V[k]
             /\ I' = I + OpX + 1
             /\ memory' = memory]_vars
  /\ [](Fresh(ROM_ROUNDTRIP)
          => \A x \in 0..15, regs \in BulkRegs :
               \A i \in BulkAddrs(x) :
                 LET st == StoreOf(regs, i, x)
                     ld == LoadOf(regs, i, x)
                 IN /\ st.res = Ok
                    /\ st.emu.V = regs
                    /\ st.emu.I = i + x + 1
                    /\ ld.res = Ok
                    /\ ld.emu.I = i + x + 1
                    /\ \A k \in 0..15 :
                         ld.emu.V[k] = IF k <= x THEN regs[k] ELSE 0)

C21_Witness ==
  /\ call.op = "execute"
  /\ call.pc = 528
  /\ call.a = 241
  /\ call.b = 101
  /\ result = Ok
  /\ V[0] = 17
  /\ V[1] = 34
  /\ V[2] = 51
  /\ I = 770
  /\ memory[768] = 17
  /\ memory[769] = 34

\* the bytes h, t, u are the decimal digits of v
IsBcd(h, t, u, v) ==
  /\ h \in 0..9
  /\ t \in 0..9
  /\ u \in 0..9
  /\ 100 * h + 10 * t + u = v

\* C22: FX33 with I + 2 inside memory writes the three decimal digits of Vx
\* to memory[I], memory[I + 1], memory[I + 2] and changes no other byte, no
\* register and not I; this holds for the programs run and for every 8-bit
\* value of V0 and of VF.
C22_Bcd ==
  /\ [][(ExecuteCalled /\ AtFX(51) /\ I + 2 < MEM_SIZE)
          => /\ result' = Ok
             /\ IsBcd(memory'[I], memory'[I + 1], memory'[I + 2], V[OpX])
             /\ SameOutside(memory', memory, I, 3)
             /\ I' = I
             /\ V' = V]_vars
  /\ [](Fresh(ROM_BCD)
          => \A v \in 0..255, x \in {0, 15}, i \in {768, MEM_SIZE - 3} :
               LET regs == [k \in 0..15 |-> IF k = x THEN v ELSE 0]
                   o == Dispatch([self EXCEPT !.PC = PC + 2, !.V = regs,
                                              !.I = i], 240 + x, 51, 0)
               IN /\ o.res = Ok
                  /\ IsBcd(o.emu.memory[i], o.emu.memory[i + 1],
                           o.emu.memory[i + 2], v)
                  /\ o.emu.I = i
                  /\ o.emu.V = regs)

C22_Witness ==
  /\ call.op = "execute"
  /\ call.pc = 516
  /\ call.a = 240
  /\ call.b = 51
  /\ result = Ok
  /\ V[0] = 254
  /\ I = 768
  /\ memory[768] = 2
  /\ memory[769] = 5
  /\ memory[770] = 4

\* the machine m after k calls of decrease_timers()
RECURSIVE Ticks(_, _)
Ticks(m, k) == IF k = 0 THEN m ELSE decrease_timers(Ticks(m, k - 1))

Max(v, w) == IF v >= w THEN v ELSE w

\* C23: decrease_timers() takes 1 from DT if DT > 0 and 1 from ST if
\* ST > 0, leaves a timer that is 0 at 0 and changes nothing else; k calls
\* take a timer from v to max(v - k, 0), each timer on its own. One call
\* is run on all 8-bit values of both timers, k calls up to k = 50.
C23_Timers ==
  /\ [][call'.op = "decrease_timers"
          => /\ DT' = IF DT > 0 THEN DT - 1 ELSE 0
             /\ ST' = IF ST > 0 THEN ST - 1 ELSE 0
             /\ UNCHANGED << PC, memory, V, I, sub_stack, keys, screen,
                             prev_screen, vblank_interrupt,
                             last_pressed_key, result >>]_vars
  /\ [](Fresh(ROM_TIMER)
          => /\ \A v \in 0..255, w \in 0..255 :
                  LET m == decrease_timers([self EXCEPT !.DT = v, !.ST = w])
                  IN /\ m.DT = Max(v - 1, 0)
                     /\ m.ST = Max(w - 1, 0)
             /\ \A v \in {0, 1, 2, 40, 255}, w \in {0, 3, 255} :
                  \A k \in {0, 1, 2, 3, 4, 39, 40, 41, 50} :
                    LET m == Ticks([self EXCEPT !.DT = v, !.ST = w], k)
                    IN /\ m.DT = Max(v - k, 0)
                       /\ m.ST = Max(w - k, 0))

C23_Witness ==
  /\ call.op = "decrease_timers"
  /\ PC >= 520
  /\ V[1] = 1
  /\ DT = 0
  /\ ST = 0

\* C24: vblank() sets the latch and nothing else, so a call that finds the
\* latch set changes nothing and two or three calls leave the machine as one
\* does; the DXYN that completes after them clears the latch, and a DXYN
\* that finds it cleared is stopped, however many calls there were.
C24_VblankIdempotent ==
  /\ [](/\ vblank(vblank(self)) = vblank(self)
        /\ vblank(vblank(vblank(self))) = vblank(self))
  /\ [][call'.op = "vblank"
          => /\ vblank_interrupt'
             /\ UNCHANGED << PC, memory, V, I, sub_stack, DT, ST, keys,
                             screen, prev_screen, last_pressed_key >>
             /\ vblank_interrupt => UNCHANGED emu_vars]_vars
  /\ [][(ExecuteCalled /\ AtDXYN /\ vblank_interrupt /\ result'.kind = "Ok")
          => (PC' = PC + 2 /\ ~vblank_interrupt')]_vars
  /\ [][(ExecuteCalled /\ AtDXYN /\ ~vblank_interrupt)
          => (PC' = PC /\ screen' = screen /\ n_draw' = n_draw)]_vars

C24_Witness ==
  /\ WasBlocked
  /\ nibble_h(call.a) = 13
  /\ ~vblank_interrupt
  /\ n_vblank = 3
  /\ n_draw = 1

\* C25: screen_changed() returns whether the framebuffer differs from the
\* snapshot of the call before (the blank framebuffer after load_rom()),
\* makes the framebuffer the snapshot and changes nothing else; a call right
\* after a call returns false.
C25_ScreenChanged ==
  /\ [](call.op = "load_rom" => prev_screen = Blank)
  /\ [][call'.op = "screen_changed"
          => /\ changed' = (\E r \in 0..(DISPLAY_HEIGHT - 1) :
                              screen[r] # prev_screen[r])
             /\ prev_screen' = screen
             /\ UNCHANGED << PC, memory, V, I, sub_stack, DT, ST, keys,
                             screen, vblank_interrupt, last_pressed_key,
                             result >>]_vars
  /\ [][(call.op = "screen_changed" /\ call'.op = "screen_changed")
          => ~changed']_vars

C25_Witness ==
  /\ call.op = "screen_changed"
  /\ changed
  /\ n_draw = 2
  /\ screen # Blank
  /\ prev_screen = screen

\* the DXYN execute() is at: start position, rows, and whether the pixel
\* (px, py) is inside the sprite placed there
DrawX == V[nibble_l(OpA)] % DISPLAY_WIDTH
DrawY == V[nibble_h(OpB)] % DISPLAY_HEIGHT
DrawN == nibble_l(OpB)
InSprite(px, py) ==
  /\ px - DrawX \in 0..7
  /\ py - DrawY \in 0..(DrawN - 1)

\* this step is an execute() that completes a DXYN
DrawStep ==
  /\ ExecuteCalled
  /\ AtDXYN
  /\ result'.kind = "Ok"
  /\ PC' = PC + 2

\* get_pixel(px, py) differs before and after this step
Toggled(px, py) == get_pixel(self, px, py)' # get_pixel(self, px, py)

\* C26: a completed DXYN with X = Vx mod 64, Y = Vy mod 32 toggles the pixel
\* (X + c, Y + r), as get_pixel() returns it, exactly when bit 7 - c of
\* memory[I + r] is 1, for every row r < n and column c < 8 of the sprite
\* that lies on the screen, with X below, at and above 56.
C26_SpritePixels ==
  [][DrawStep
       => \A px \in 0..(DISPLAY_WIDTH - 1), py \in 0..(DISPLAY_HEIGHT - 1) :
            InSprite(px, py)
              => (Toggled(px, py)
                    <=> Bit(memory[I + (py - DrawY)], 7 - (px - DrawX)) = 1)]_vars

C26_Witness ==
  /\ call.op = "execute"
  /\ call.pc = 524
  /\ call.b = 21
  /\ PC = 526
  /\ V[0] = 56
  /\ V[1] = 0
  /\ get_pixel(self, 56, 0)
  /\ ~get_pixel(self, 57, 0)
  /\ get_pixel(self, 63, 0)
  /\ get_pixel(self, 63, 3)
  /\ get_pixel(self, 56, 4)

\* C27: a completed DXYN leaves every pixel outside rows Y..Y+n-1 and
\* columns X..X+7 as it was, whatever the framebuffer held: rows past the
\* bottom and columns past the right edge are dropped and do not come back
\* at the top or on the left.
C27_NoWrap ==
  [][DrawStep
       => \A px \in 0..(DISPLAY_WIDTH - 1), py \in 0..(DISPLAY_HEIGHT - 1) :
            ~InSprite(px, py) => ~Toggled(px, py)]_vars

C27_Witness ==
  /\ call.op = "execute"
  /\ call.pc = 524
  /\ call.b = 31
  /\ PC = 526
  /\ V[0] = 63
  /\ V[1] = 31
  /\ get_pixel(self, 63, 31)
  /\ ~get_pixel(self, 0, 31)
  /\ ~get_pixel(self, 63, 0)
  /\ ~get_pixel(self, 0, 0)

\* the machine is as load_rom() leaves it when at most limit bytes of the
\* source are copied: the source from 0x200 on, zero elsewhere outside the
\* glyph table, PC at 0x200, everything else zero or empty
LoadedAs(limit) ==
  LET n == IF Len(source) < limit THEN Len(source) ELSE limit
  IN /\ \A k \in Len(SPRITE_DATA)..(MEM_SIZE - 1) :
          memory[k] = IF k >= 512 /\ k < 512 + n THEN source[k - 512 + 1] ELSE 0
     /\ PC = 512
     /\ I = 0
     /\ DT = 0
     /\ ST = 0
     /\ sub_stack = << >>
     /\ \A k \in 0..15 : V[k] = 0 /\ ~keys[k]
     /\ \A r \in 0..(DISPLAY_HEIGHT - 1) : screen[r] = {}

\* C28 as stated: load_rom() copies the first min(L, 2192) bytes of the
\* source to 0x200 and leaves every other byte outside the glyph table zero.
C28_LoadRom == call.op = "load_rom" => LoadedAs(2192)

\* C28 amended: load_rom() copies the first min(L, 3216) bytes of the source
\* to 0x200, up to 0xE8F; every other byte outside the glyph table is zero,
\* PC is 0x200 and registers, timers, stack, keys and framebuffer are zero
\* or empty.
C28_LoadRomLimit == call.op = "load_rom" => LoadedAs(3216)

C28_Witness ==
  /\ call.op = "load_rom"
  /\ Len(source) = 6432
  /\ memory[3727] = source[3216]
  /\ memory[3727] # 0
  /\ memory[3728] = 0
  /\ source[3217] # 0

\* the instruction a b is a skip; its condition on the registers regs
IsSkip(a, b) ==
  \/ nibble_h(a) \in {3, 4}
  \/ nibble_h(a) \in {5, 9} /\ nibble_l(b) = 0

SkipTaken(regs, a, b) ==
  LET vx == regs[nibble_l(a)]
      vy == regs[nibble_h(b)]
  IN CASE nibble_h(a) = 3 -> vx = b
       [] nibble_h(a) = 4 -> vx # b
       [] nibble_h(a) = 5 -> vx = vy
       [] nibble_h(a) = 9 -> vx # vy

\* C29: 3xnn, 4xnn, 5xy0 and 9xy0 leave PC 4 after the fetch address when
\* their condition holds and 2 after it when not, and change no register,
\* memory byte, stack entry, timer or pixel; this holds for the programs run
\* and for all 8-bit values of V0 and of V1 or nn.
C29_Skip ==
  /\ [][(ExecuteCalled /\ FetchOk /\ IsSkip(OpA, OpB))
          => /\ result' = Ok
             /\ PC' = PC + (IF SkipTaken(V, OpA, OpB) THEN 4 ELSE 2)
             /\ UNCHANGED << memory, V, I, sub_stack, DT, ST, keys, screen,
                             prev_screen, vblank_interrupt >>]_vars
  /\ [](Fresh(SkipRom(0, 0, 48, 0))
          => \A va \in 0..255, vb \in 0..255 :
               \A op \in {<<48, vb>>, <<64, vb>>, <<80, 16>>, <<144, 16>>} :
                 LET regs == Regs(0, 0, va, 1, vb)
                     m == [self EXCEPT !.PC = PC + 2, !.V = regs]
                     o == Dispatch(m, op[1], op[2], 0)
                 IN /\ o.res = Ok
                    /\ o.emu.PC = PC + (IF SkipTaken(regs, op[1], op[2])
                                        THEN 4 ELSE 2)
                    /\ o.emu.V = regs)

C29_Witness ==
  /\ call.op = "execute"
  /\ call.pc = 516
  /\ call.a = 64
  /\ call.b = 255
  /\ result = Ok
  /\ V[0] = 1
  /\ V[1] = 255
  /\ PC = 520

C31_ReleaseLatch ==
  [][call'.op = "set_key"
       => /\ (call'.was /\ ~call'.pressed) => last_pressed_key' = call'.key
          /\ ~(call'.was /\ ~call'.pressed)
               => last_pressed_key' = last_pressed_key
          /\ call'.was = keys[call'.key % 16]
          /\ keys' = [keys EXCEPT ![call'.key % 16] = call'.pressed]]_vars

\* a second key was released before the next instruction
C31_Witness ==
  /\ call.op = "set_key"
  /\ call.was
  /\ ~call.pressed
  /\ call.latch \notin {None, call.key}
  /\ last_pressed_key = call.key

\* ------------------------------------------------------------------------
\* C32: the two bytes execute() fetches lie inside memory: PC + 1 < 4096 at
\* every fetch, and no call of execute() ends in an out-of-bounds access.
\* ------------------------------------------------------------------------
C32_FetchInside ==
  call.op = "execute" => (call.pc + 1 < MEM_SIZE /\ result.kind # "Panic")

\* ------------------------------------------------------------------------
\* C33: every memory access DXYN, FX33, FX55 and FX65 make relative to I is
\* to an address below 4096.
\* ------------------------------------------------------------------------
\* the rows DXYN draws: n, less the rows below the screen
DrawRows ==
  IF DrawN < DISPLAY_HEIGHT - DrawY THEN DrawN ELSE DISPLAY_HEIGHT - DrawY

\* the instruction at PC accesses memory relative to I
IRelative ==
  \/ AtDXYN /\ vblank_interrupt /\ DrawRows > 0
  \/ AtFX(51)
  \/ AtFX(85)
  \/ AtFX(101)

\* the highest address it accesses
LastAccess ==
  IF AtDXYN THEN I + DrawRows - 1
  ELSE IF AtFX(51) THEN I + 2
  ELSE I + OpX

C33_AccessInside ==
  [][(ExecuteCalled /\ IRelative)
       => (LastAccess < MEM_SIZE /\ result'.kind # "Panic")]_vars

\* ------------------------------------------------------------------------
\* C34: under a pacer that keeps calling vblank() and execute(), a DXYN at
\* PC eventually completes: execute() returns Ok for it and PC is past it.
\* ------------------------------------------------------------------------
\* the addresses of the instructions of the programs
ProgramPcs == {ADDR_START + 2 * k : k \in 0..4}

C34_DrawCompletes ==
  \A p \in ProgramPcs :
    (AtDXYN /\ PC = p)
      ~> (/\ call.op = "execute"
          /\ call.pc = p
          /\ nibble_h(call.a) = 13
          /\ result.kind = "Ok"
          /\ PC = p + 2)

\* the second draw of a program completed under the uncounted vblank()
C34_Witness ==
  /\ call.op = "execute"
  /\ nibble_h(call.a) = 13
  /\ result.kind = "Ok"
  /\ PC = call.pc + 2
  /\ n_draw = 2
  /\ n_vblank = 0

\* ------------------------------------------------------------------------
\* C35: an execute() that DXYN's vblank gate stops leaves the last released
\* key latched; the execute() that completes the draw clears it, and the
\* FX0A executed right after that draw waits.
\* ------------------------------------------------------------------------
\* the last call completed a draw
DrawJustDone ==
  /\ call.op = "execute"
  /\ nibble_h(call.a) = 13
  /\ result.kind = "Ok"
  /\ PC = call.pc + 2

C35_BlockedDrawKeepsLatch ==
  [][/\ (ExecuteCalled /\ AtDXYN /\ ~vblank_interrupt)
          => (PC' = PC /\ last_pressed_key' = last_pressed_key)
     /\ (ExecuteCalled /\ AtDXYN /\ vblank_interrupt /\ result'.kind = "Ok")
          => (PC' = PC + 2 /\ last_pressed_key' = None)
     /\ (ExecuteCalled /\ AtFX0A /\ DrawJustDone)
          => (PC' = PC /\ V' = V)]_vars

\* a release was latched when the draw passed the gate, and the draw's
\* completion cleared it in front of the FX0A
C35_Witness ==
  /\ DrawJustDone
  /\ call.latch # None
  /\ last_pressed_key = None
  /\ AtFX0A

\* ------------------------------------------------------------------------
\* C36: execute() changes DT through FX15 only and ST through FX18 only;
\* decrease_timers() counts DT and ST down and changes nothing else, also
\* while a draw or a wait for a key is blocked; vblank() changes nothing but
\* the vblank latch.
\* ------------------------------------------------------------------------
\* a machine with running timers and pairwise different registers
Ticking ==
  [self EXCEPT !.PC = PC + 2, !.DT = 7, !.ST = 9,
               !.V = [k \in 0..15 |-> 16 + k], !.vblank_interrupt = TRUE]

C36_TimerClock ==
  /\ [][/\ (ExecuteCalled /\ ~AtFX(21)) => DT' = DT
        /\ (ExecuteCalled /\ ~AtFX(24)) => ST' = ST
        /\ call'.op = "decrease_timers"
             => /\ DT' = IF DT > 0 THEN DT - 1 ELSE 0
                /\ ST' = IF ST > 0 THEN ST - 1 ELSE 0
                /\ UNCHANGED << memory, V, I, PC, sub_stack, keys, screen,
                                prev_screen, vblank_interrupt,
                                last_pressed_key >>
        /\ call'.op = "vblank"
             => /\ vblank_interrupt'
                /\ UNCHANGED << memory, V, I, PC, sub_stack, DT, ST, keys,
                                screen, prev_screen, last_pressed_key >>]_vars
  /\ [](call.op = "load_rom"
          => \A a \in 0..255, b \in 0..255 :
               /\ ~(nibble_h(a) = 15 /\ b = 21)
                    => Dispatch(Ticking, a, b, 0).emu.DT = 7
               /\ ~(nibble_h(a) = 15 /\ b = 24)
                    => Dispatch(Ticking, a, b, 0).emu.ST = 9)

\* both timers ran down from 2 to 0 in front of a draw that has not
\* completed
C36_Witness ==
  /\ call.op = "decrease_timers"
  /\ AtDXYN
  /\ ~vblank_interrupt
  /\ n_draw = 0
  /\ DT = 0
  /\ ST = 0

\* ------------------------------------------------------------------------
\* C37: a DXYN with n = 0 executed while the vblank latch is set leaves the
\* framebuffer and the registers, VF among them, as they were, clears the
\* latch and advances PC by 2; a DXYN executed right after it is stopped by
\* the gate.
\* ------------------------------------------------------------------------
C37_EmptyDraw ==
  [][/\ (ExecuteCalled /\ AtDXYN /\ DrawN = 0 /\ vblank_interrupt)
          => /\ result'.kind = "Ok"
             /\ screen' = screen
             /\ V' = V
             /\ PC' = PC + 2
             /\ ~vblank_interrupt'
     /\ (ExecuteCalled /\ AtDXYN /\ DrawJustDone /\ nibble_l(call.b) = 0)
          => /\ result'.kind = "Ok"
             /\ PC' = PC
             /\ screen' = screen]_vars

\* the draw after the draw of no row was stopped by the gate, VF still 1
C37_Witness ==
  /\ call.op = "execute"
  /\ nibble_h(call.a) = 13
  /\ nibble_l(call.b) = 1
  /\ PC = call.pc
  /\ n_draw = 2
  /\ V[15] = 1
  /\ ~vblank_interrupt

\* ------------------------------------------------------------------------
\* C38: when the events of an iteration hold a Quit action (the Escape key
\* or the closing of the window), the state is Quit when the events are
\* processed and the loop is left in that iteration, whatever events follow
\* the Quit.
\* ------------------------------------------------------------------------
C38_QuitSticks ==
  (/\ app.iter > 0
   /\ \E i \in 1..Len(app.events) : app.events[i] \in {"EscapeDown", "Quit"})
    => (app.state = "Quit" /\ app.at = "done")

\* ------------------------------------------------------------------------
\* C39: an iteration of the run loop in the Paused state calls none of
\* execute(), decrease_timers() and vblank() and leaves the accumulators as
\* they were, so PC, the registers, the timers and the framebuffer stay as
\* they are and the next Running iteration runs the cycles of its own
\* elapsed time only; a Running iteration calls vblank() at most once, and
\* before its first execute().
\* ------------------------------------------------------------------------
\* how many of the calls of the last iteration were calls of op
CallsOf(r, op) == Cardinality({i \in 1..Len(r.calls) : r.calls[i] = op})

\* the time an iteration in the Running state took off each accumulator
CpuTime == CallsOf(app', "execute") * CYCLE_DELAY + app'.cpu_delta - app.cpu_delta
TimerTime ==
  CallsOf(app', "decrease_timers") * TIMER_DELAY
    + app'.timer_delta - app.timer_delta
VblankTime ==
  CallsOf(app', "vblank") * VBLANK_DELAY + app'.vblank_delta - app.vblank_delta

C39_PausedFrozen ==
  [][/\ (call'.op = "run" /\ app'.iter = app.iter + 1
          /\ app'.branch = "Paused")
          => /\ \A i \in 1..Len(app'.calls) :
                  app'.calls[i] \in {"set_key", "screen_changed"}
             /\ app'.cpu_delta = app.cpu_delta
             /\ app'.timer_delta = app.timer_delta
             /\ app'.vblank_delta = app.vblank_delta
             /\ UNCHANGED << PC, V, I, DT, ST, screen, memory, sub_stack,
                             vblank_interrupt >>
     /\ (call'.op = "run" /\ app'.iter = app.iter + 1
          /\ app'.branch = "Running" /\ app'.at = "loop")
          => /\ CallsOf(app', "vblank") <= 1
             /\ \A i, j \in 1..Len(app'.calls) :
                  (app'.calls[i] = "vblank" /\ app'.calls[j] = "execute")
                    => i < j
             /\ CpuTime \in Elapsed
             /\ TimerTime = CpuTime
             /\ VblankTime = CpuTime
             /\ app'.cpu_delta < CYCLE_DELAY
             /\ app'.timer_delta < TIMER_DELAY]_vars

\* a Paused iteration after a frame of running: the sound timer stays at 2
C39_Witness ==
  /\ app.at = "loop"
  /\ app.branch = "Paused"
  /\ app.iter = 2
  /\ ST = 2
  /\ PC = 516
  /\ app.timer_delta = 17000 - TIMER_DELAY

====
